---- MODULE Spec2Model ----
(***************************************************************************)
(* MERN_Structure: the backend request pipeline (Express middleware chain, *)
(* route handlers, 404 handler and global error handler), the token        *)
(* service feeding the error handler, and the frontend axios client with   *)
(* its request/response interceptors.                                      *)
(*                                                                         *)
(* Nine specifications share this module:                                  *)
(*   Spec         one server process serving requests one after another    *)
(*   SpecClassify failures raised to the global error handler              *)
(*   SpecClient   one browser client with several requests in flight        *)
(*   SpecLimiter  a RateLimiter object under isAllowed and reset calls, and *)
(*                generalLimiter under requests arriving together           *)
(*   SpecSanitize the recursive sanitizer of sanitizeInput on JSON values   *)
(*   SpecToken    one token from its issue through verifications over time  *)
(*   SpecHash     SecretsManager.hash and verifyHash on one input           *)
(*   SpecAuth     the auth slice, authService and ProtectedRoute            *)
(*   SpecStorage  secureStorage under setItem, getItem, removeItem, clear   *)
(* Every specification leaves the variables of the others untouched.       *)
(***************************************************************************)
EXTENDS Integers, Sequences, FiniteSets, TLC

VARIABLES
    cfg,        \* server: config (env.ts), fixed at start-up
    pc,         \* server: position of the request in the chain
    req,        \* server: the request being processed
    res,        \* server: its response object
    err,        \* server: the error handed to next(err), NoErr if none
    log,        \* server: the stages that have run for this request
    hits,       \* server: generalLimiter hit count of the client IP
    served,     \* server: number of requests received so far
    authHits,   \* server: requests to the authentication endpoints received
                \*         in a row from the client IP within 15 minutes
    fl,         \* classify: the raised failure
    flSrc,      \* classify: where the failure was raised
    flEnv,      \* classify: config.env of the server
    flRes,      \* classify: the answer of the error handler
    flPc,       \* classify: "raise" | "raised" | "verified" | "answered"
    jwtCfg,     \* classify: config.jwt, fixed at start-up
    store,      \* client: sessionStorage (tokens, user data, CSRF token)
    location,   \* client: window.location
    now,        \* client: the clock
    limiter,    \* client: the rateLimiter of api.ts
    call,       \* client: the axios config of each request
    cPc,        \* client: where each request is
    cErr,       \* client: the error handed to the response error handler
    hist,       \* client: what has happened to each request so far
    issued,     \* client: number of requests the application has made
    rl,         \* limiter: a RateLimiter object (security.ts)
    rlNow,      \* limiter: the clock, Date.now()
    rlLast,     \* limiter: the last call made on rl and what it returned
    rlLog,      \* limiter: per identifier, when isAllowed returned true
                \*          since the last reset of the identifier
    gl,         \* limiter: generalLimiter's store and the requests of one
                \*          IP that are passing through it together
    sanIn,      \* sanitize: the value handed to sanitize (req.body, req.query
                \*           or req.params)
    sanOut,     \* sanitize: the value it returned
    sanPc,      \* sanitize: "call" | "done"
    tok,        \* token: the token whose life is followed, and who issued it
    tokNow,     \* token: the clock of the token service
    tokLast,    \* token: the last verification of tok and what it threw
    tokSeen,    \* token: whether tok has verified / has failed as expired
    hashIn,     \* hash: the arguments data, salt and h
    hashRes,    \* hash: what hash(data, salt) returned
    hashOut,    \* hash: what verifyHash(data, h, salt) did
    hashPc,     \* hash: "hash" | "verify" | "done"
    aStore,     \* auth: the tokens and user data in the browser's storage
    auth,       \* auth: the Redux auth state
    th,         \* auth: the thunks dispatched and how far each has come
    view,       \* auth: the last rendering of ProtectedRoute
    ss,         \* storage: sessionStorage, the stored text by key
    ssWritten,  \* storage: by key, the value last handed to setItem
    ssLast      \* storage: the last call on secureStorage and its result

serverVars == <<cfg, pc, req, res, err, log, hits, served, authHits>>
classifyVars == <<fl, flSrc, flEnv, flRes, flPc, jwtCfg>>
clientVars == <<store, location, now, limiter, call, cPc, cErr, hist, issued>>
limiterVars == <<rl, rlNow, rlLast, rlLog, gl>>
sanitizeVars == <<sanIn, sanOut, sanPc>>
tokenVars == <<tok, tokNow, tokLast, tokSeen>>
hashVars == <<hashIn, hashRes, hashOut, hashPc>>
authVars == <<aStore, auth, th, view>>
storageVars == <<ss, ssWritten, ssLast>>
vars == <<cfg, pc, req, res, err, log, hits, served, authHits, fl, flSrc, flEnv, flRes,
          flPc, jwtCfg, store, location, now, limiter, call, cPc, cErr, hist,
          issued, rl, rlNow, rlLast, rlLog, gl, sanIn, sanOut, sanPc, tok, tokNow,
          tokLast, tokSeen, hashIn, hashRes, hashOut, hashPc, aStore,
          auth, th, view, ss, ssWritten, ssLast>>

----------------------------------------------------------------------------
(* Bounds of the model *)

MaxRequests == 2        \* requests received by the server in one run
MaxRateLimit == 1       \* largest configured RATE_LIMIT_MAX_REQUESTS
MaxTime == 3            \* clock readings 0..MaxTime
MaxCalls == 2           \* requests the client application makes in one run
ApiRateLimit == 1       \* maxRequests of the client's rateLimiter (100 in api.ts)
ApiWindow == 2          \* its timeWindow in clock ticks (60000 ms in api.ts)
MaxLimiterRequests == 2 \* largest maxRequests a RateLimiter is built with
MaxLimiterWindow == 2   \* largest timeWindow, in clock ticks
AuthLimiterMax == 1     \* max of authLimiter (5 in security.ts)
MaxDepth == 2           \* nesting depth of the values handed to sanitize
HashLen == 2            \* characters of a hash (128 in secrets.ts)
MaxThunks == 2          \* thunks dispatched in one run

----------------------------------------------------------------------------
(* Strings are sequences of characters where the code splits, trims or     *)
(* searches them: "a", "b", "c" stand for origins, "," and " " are the     *)
(* separator and the blank, "*" is the wildcard.                           *)

None == <<"none">>      \* undefined / header not present

RECURSIVE TrimLeft(_)
TrimLeft(s) ==
    IF s # <<>> /\ Head(s) = " " THEN TrimLeft(Tail(s)) ELSE s

RECURSIVE TrimRight(_)
TrimRight(s) ==
    IF s # <<>> /\ s[Len(s)] = " " THEN TrimRight(SubSeq(s, 1, Len(s) - 1)) ELSE s

\* String.prototype.trim
Trim(s) == TrimRight(TrimLeft(s))

\* String.prototype.split(','): the pieces between the commas, in order
RECURSIVE SplitFrom(_, _, _)
SplitFrom(s, i, cur) ==
    IF i > Len(s) THEN <<cur>>
    ELSE IF s[i] = "," THEN <<cur>> \o SplitFrom(s, i + 1, <<>>)
    ELSE SplitFrom(s, i + 1, Append(cur, s[i]))

Split(s) == SplitFrom(s, 1, <<>>)

Range(f) == {f[i] : i \in DOMAIN f}

\* config.cors.origin.split(',').map(o => o.trim())
AllowedOrigins(corsOrigin) == {Trim(o) : o \in Range(Split(corsOrigin))}

\* corsOriginHandler: TRUE for callback(null, true), FALSE for
\* callback(new Error('Not allowed by CORS'))
CorsDecision_noWildcard(origin, corsOrigin) ==
    \/ origin = None
    \/ origin = <<>>
    \/ origin \in AllowedOrigins(corsOrigin)

corsOriginHandler(origin, corsOrigin) ==
    \/ origin = None
    \/ origin = <<>>
    \/ origin \in AllowedOrigins(corsOrigin)
    \/ <<"*">> \in AllowedOrigins(corsOrigin)

----------------------------------------------------------------------------
(* Failures: the fields of a thrown value that the global error handler    *)
(* reads.  0 and "" stand for an absent (undefined) field.                 *)

NoId == 0

Failure(message, status, statusCode, name, type, errors, stack) ==
    [message |-> message, status |-> status, statusCode |-> statusCode,
     name |-> name, type |-> type, errors |-> errors, stack |-> stack]

NoErr == Failure("", 0, 0, "", "", <<>>, "")

\* new Error(message): name 'Error', own stack, nothing else
PlainError(message) == Failure(message, 0, 0, "Error", "", <<>>, "stack")

CorsMessage == "Not allowed by CORS"

\* body-parser's errors (http-errors): status and statusCode both set
PayloadTooLargeError ==
    Failure("request entity too large", 413, 413, "PayloadTooLargeError",
            "entity.too.large", <<>>, "stack")

BodyParseError ==
    Failure("Unexpected token", 400, 400, "SyntaxError",
            "entity.parse.failed", <<>>, "stack")

\* The JSON body of a response.  requestId = NoId: the field is absent
\* (JSON.stringify drops an undefined req.id as well).
Body(success, message, requestId, errors, stack) ==
    [success |-> success, message |-> message, requestId |-> requestId,
     errors |-> errors, stack |-> stack]

EmptyBody == Body(TRUE, "", NoId, <<>>, "")

Answer(status, body) == [status |-> status, body |-> body]

\* a || b on numbers, and on strings
OrNum(a, b) == IF a = 0 THEN b ELSE a

OrStr(a, b) == IF a = "" THEN b ELSE a

\* The default branch of the global error handler
DefaultAnswer_leaksMessage(e, env, id) ==
    Answer(OrNum(e.statusCode, OrNum(e.status, 500)),
           Body(FALSE, OrStr(e.message, "Something went wrong"), id, <<>>,
                IF env = "development" THEN e.stack ELSE ""))

DefaultAnswer(e, env, id) ==
    Answer(OrNum(e.statusCode, OrNum(e.status, 500)),
           Body(FALSE,
                IF env = "production" THEN "Internal server error"
                ELSE OrStr(e.message, "Something went wrong"),
                id, <<>>,
                IF env = "development" THEN e.stack ELSE ""))

\* The claimed order of the rules: payload-too-large right after rate limit
Classify_specOrder(e, env, id) ==
    IF e.message = CorsMessage
        THEN Answer(403, Body(FALSE, "CORS policy: Access denied", id, <<>>, ""))
    ELSE IF e.status = 429
        THEN Answer(429, Body(FALSE, OrStr(e.message, "Too many requests"), id, <<>>, ""))
    ELSE IF e.type = "entity.too.large"
        THEN Answer(413, Body(FALSE, "Request payload too large", id, <<>>, ""))
    ELSE IF e.name = "ValidationError"
        THEN Answer(400, Body(FALSE, "Validation failed", id, e.errors, ""))
    ELSE IF e.name = "JsonWebTokenError"
        THEN Answer(401, Body(FALSE, "Invalid token", id, <<>>, ""))
    ELSE IF e.name = "TokenExpiredError"
        THEN Answer(401, Body(FALSE, "Token expired", id, <<>>, ""))
    ELSE DefaultAnswer(e, env, id)

\* The global error handler: the answer it sends for failure e
Classify(e, env, id) ==
    IF e.message = CorsMessage
        THEN Answer(403, Body(FALSE, "CORS policy: Access denied", id, <<>>, ""))
    ELSE IF e.status = 429
        THEN Answer(429, Body(FALSE, OrStr(e.message, "Too many requests"), id, <<>>, ""))
    ELSE IF e.name = "ValidationError"
        THEN Answer(400, Body(FALSE, "Validation failed", id, e.errors, ""))
    ELSE IF e.name = "JsonWebTokenError"
        THEN Answer(401, Body(FALSE, "Invalid token", id, <<>>, ""))
    ELSE IF e.name = "TokenExpiredError"
        THEN Answer(401, Body(FALSE, "Token expired", id, <<>>, ""))
    ELSE IF e.type = "entity.too.large"
        THEN Answer(413, Body(FALSE, "Request payload too large", id, <<>>, ""))
    ELSE DefaultAnswer(e, env, id)

----------------------------------------------------------------------------
(* The server: app.ts                                                      *)

Envs == {"development", "production", "test"}

\* CORS_ORIGIN values: "a" / "a, b" / "*"
CorsConfigs == { <<"a">>, <<"a", ",", " ", "b">>, <<"*">> }

\* Origin header: absent, empty, or one of three origins
Origins == { None, <<>>, <<"a">>, <<"b">>, <<"c">> }

Methods == {"GET", "POST", "DELETE", "OPTIONS"}

Paths == {"/health", "/api", "/api/uploads/avatar", "/api/auth/login",
          "/uploads/f"}

\* What the strings of a query or body contain: nothing of interest, a
\* <script>...</script> block, or a "../" sequence
Payloads == {"clean", "script", "traversal"}

\* Content-Type header: absent ("none"), present with an empty value, or
\* one of three media types
ContentTypes ==
    {"none", "", "application/json", "application/x-www-form-urlencoded",
     "multipart/form-data"}

\* A request body as the parsers meet it
BodyKinds == {"ok", "huge", "malformed"}

UserAgents == {"none", "Mozilla", "sqlmap"}

SecurityHeaderNames ==
    {"X-Content-Type-Options", "X-Frame-Options", "X-XSS-Protection",
     "Strict-Transport-Security", "Permissions-Policy"}

\* The middleware registered by app.use, in registration order; morgan is
\* registered in development only
Chain_limiterAfterParsing(env) ==
    <<"requestIdMiddleware", "securityHeaders", "cors", "requestLogger">>
    \o (IF env = "development" THEN <<"morgan">> ELSE <<>>)
    \o <<"json", "urlencoded", "generalLimiter", "cookieParser",
         "mongoSanitizeConfig", "hppConfig", "sanitizeInput",
         "detectSuspiciousActivity", "validateUserAgent",
         "validateContentType", "compressionConfig", "static">>

Chain(env) ==
    <<"requestIdMiddleware", "securityHeaders", "cors", "requestLogger">>
    \o (IF env = "development" THEN <<"morgan">> ELSE <<>>)
    \o <<"generalLimiter", "json", "urlencoded", "cookieParser",
         "mongoSanitizeConfig", "hppConfig", "sanitizeInput",
         "detectSuspiciousActivity", "validateUserAgent",
         "validateContentType", "compressionConfig", "static">>

IndexOf(seq, x) == CHOOSE i \in DOMAIN seq : seq[i] = x

\* Where next() leads from a stage: the next registered middleware, then
\* the routes
After(stage) ==
    LET c == Chain(cfg.env)
        i == IndexOf(c, stage)
    IN IF i < Len(c) THEN c[i + 1] ELSE "routes"

\* app.use('/api/', ...) and app.use('/api', ...) match /api and below
IsApiPath(path) == path \in {"/api", "/api/uploads/avatar", "/api/auth/login"}

\* The authentication endpoints (API_ENDPOINTS.AUTH), which the router
\* leaves unmounted
IsAuthPath(path) == path = "/api/auth/login"

\* What a stage or handler did: sent a response, called next(), or called
\* next(err) (raise # NoErr)
Outcome(send, status, body, next, raise) ==
    [send |-> send, status |-> status, body |-> body, next |-> next, raise |-> raise]

PassOn == Outcome(FALSE, 0, EmptyBody, TRUE, NoErr)

Respond(status, body) == Outcome(TRUE, status, body, FALSE, NoErr)

Raise(e) == Outcome(FALSE, 0, EmptyBody, FALSE, e)

\* Express's dispatch around one stage: record the run, write the response
\* if the stage sent one (a second send on a finished response is dropped),
\* and move on.  headers: the response headers after the stage.
Run(stage, out, headers, nextPc) ==
    /\ log' = Append(log, [stage |-> stage, sent |-> out.send,
                           next |-> out.next, raised |-> out.raise # NoErr])
    /\ res' = IF out.send /\ ~res.sent
                 THEN [sent |-> TRUE, status |-> out.status,
                       body |-> out.body, headers |-> headers]
                 ELSE [res EXCEPT !.headers = headers]
    /\ err' = out.raise
    /\ pc' = IF out.raise # NoErr THEN "errorHandler"
             ELSE IF out.next THEN nextPc
             ELSE "done"

ServerInit ==
    /\ cfg \in [env : Envs, corsOrigin : CorsConfigs,
                rateLimitMaxRequests : 1..MaxRateLimit]
    /\ pc = "idle"
    /\ req = [id |-> NoId, method |-> "GET", path |-> "/health",
              origin |-> None, userAgent |-> "unread", contentType |-> "unread",
              query |-> "clean", body |-> "undefined", segment |-> "clean",
              params |-> "empty"]
    /\ res = [sent |-> FALSE, status |-> 0, body |-> EmptyBody, headers |-> {}]
    /\ err = NoErr
    /\ log = <<>>
    /\ hits = 0
    /\ served = 0
    /\ authHits = 0

\* The values a header may turn out to have when a stage reads it: any, at
\* the first read; the value read before, afterwards
Header(field, values) == IF field = "unread" THEN values ELSE {field}

\* A request reaches the server.  Method, path and query string are known
\* from the request line; headers and body are revealed by the first stage
\* that reads them.  The last path segment matters to DELETE
\* /api/uploads/:filename only; the login endpoint is called with POST and
\* no query string.
Arrive ==
    /\ pc \in {"idle", "done"}
    /\ served < MaxRequests
    /\ served' = served + 1
    /\ \E m \in Methods, p \in Paths, q \in Payloads, f \in Payloads :
          /\ (m = "DELETE" /\ p = "/api/uploads/avatar") \/ f = "clean"
          /\ IsAuthPath(p) => (m = "POST" /\ q = "clean")
          /\ req' = [id |-> NoId, method |-> m, path |-> p, origin |-> None,
                     userAgent |-> "unread", contentType |-> "unread",
                     query |-> q, body |-> "undefined", segment |-> f,
                     params |-> "empty"]
          /\ authHits' = IF IsAuthPath(p) THEN authHits + 1 ELSE 0
    /\ res' = [sent |-> FALSE, status |-> 0, body |-> EmptyBody,
               headers |-> {"X-Powered-By"}]
    /\ err' = NoErr
    /\ log' = <<>>
    /\ pc' = Chain(cfg.env)[1]
    /\ UNCHANGED <<cfg, hits>>
    /\ UNCHANGED <<classifyVars, clientVars, limiterVars, sanitizeVars,
                   tokenVars, hashVars, authVars, storageVars>>

\* Time passes between two requests: the window of generalLimiter
\* (RATE_LIMIT_WINDOW_MS) runs out, and the 15 minutes of the authentication
\* limiter may or may not have run out with it.  The limiter reads the
\* count once per request, so only the gaps between requests matter.
WindowElapses ==
    /\ pc \in {"idle", "done"}
    /\ hits > 0 \/ authHits > 0
    /\ hits' = 0
    /\ authHits' \in {authHits, 0}
    /\ <<hits', authHits'>> # <<hits, authHits>>
    /\ UNCHANGED <<cfg, pc, req, res, err, log, served>>
    /\ UNCHANGED <<classifyVars, clientVars, limiterVars, sanitizeVars,
                   tokenVars, hashVars, authVars, storageVars>>

\* crypto.randomUUID(): a value no earlier request had
NewRequestId == served

RequestIdMiddleware ==
    /\ pc = "requestIdMiddleware"
    /\ req' = [req EXCEPT !.id = NewRequestId]
    /\ Run("requestIdMiddleware", PassOn, res.headers \cup {"X-Request-ID"},
           After("requestIdMiddleware"))
    /\ UNCHANGED <<cfg, hits, served, authHits>>
    /\ UNCHANGED <<classifyVars, clientVars, limiterVars, sanitizeVars,
                   tokenVars, hashVars, authVars, storageVars>>

securityHeaders_noHsts(headers) ==
    (headers \cup (SecurityHeaderNames \ {"Strict-Transport-Security"}))
        \ {"X-Powered-By"}

\* The response headers after securityHeaders ran
securityHeaders(headers) ==
    (headers \cup SecurityHeaderNames) \ {"X-Powered-By"}

SecurityHeadersStage ==
    /\ pc = "securityHeaders"
    /\ Run("securityHeaders", PassOn, securityHeaders(res.headers),
           After("securityHeaders"))
    /\ UNCHANGED <<cfg, req, hits, served, authHits>>
    /\ UNCHANGED <<classifyVars, clientVars, limiterVars, sanitizeVars,
                   tokenVars, hashVars, authVars, storageVars>>

\* cors(corsOptions): asks corsOriginHandler; an error goes to next(err);
\* an allowed OPTIONS request is a preflight and is answered here with
\* optionsSuccessStatus; any other allowed request gets the CORS headers
\* and goes on.
Cors ==
    /\ pc = "cors"
    /\ \E origin \in Origins :
          /\ req' = [req EXCEPT !.origin = origin]
          /\ IF ~corsOriginHandler(origin, cfg.corsOrigin)
                THEN Run("cors", Raise(PlainError(CorsMessage)), res.headers,
                         After("cors"))
             ELSE IF req.method = "OPTIONS"
                THEN Run("cors", Respond(200, EmptyBody),
                         res.headers \cup {"Access-Control-Allow-Credentials"},
                         After("cors"))
             ELSE Run("cors", PassOn,
                      res.headers \cup {"Access-Control-Allow-Credentials"},
                      After("cors"))
    /\ UNCHANGED <<cfg, hits, served, authHits>>
    /\ UNCHANGED <<classifyVars, clientVars, limiterVars, sanitizeVars,
                   tokenVars, hashVars, authVars, storageVars>>

\* Middleware that only observes or normalises and always calls next()
PassThroughStages ==
    {"requestLogger", "morgan", "cookieParser", "mongoSanitizeConfig",
     "hppConfig", "compressionConfig"}

PassThrough ==
    /\ pc \in PassThroughStages
    /\ Run(pc, PassOn, res.headers, After(pc))
    /\ UNCHANGED <<cfg, req, hits, served, authHits>>
    /\ UNCHANGED <<classifyVars, clientVars, limiterVars, sanitizeVars,
                   tokenVars, hashVars, authVars, storageVars>>

RateLimitBody ==
    Body(FALSE, "Too many requests from this IP, please try again later.",
         NoId, <<>>, "")

\* generalLimiter, mounted on /api/: counts the hit, answers 429 with the
\* configured message object once the count exceeds max.  Requests outside
\* the mount path skip the stage.
GeneralLimiter ==
    /\ pc = "generalLimiter"
    /\ IF IsApiPath(req.path)
          THEN /\ hits' = hits + 1
               /\ Run("generalLimiter",
                      IF hits + 1 > cfg.rateLimitMaxRequests
                         THEN Respond(429, RateLimitBody) ELSE PassOn,
                      res.headers \cup {"RateLimit-Limit"},
                      After("generalLimiter"))
          ELSE /\ pc' = After("generalLimiter")
               /\ UNCHANGED <<hits, res, err, log>>
    /\ UNCHANGED <<cfg, req, served, authHits>>
    /\ UNCHANGED <<classifyVars, clientVars, limiterVars, sanitizeVars,
                   tokenVars, hashVars, authVars, storageVars>>

\* A body parser for content type ct: it reads the Content-Type header,
\* skips other types (req.body becomes {}), fails with 413 on a body over
\* the limit and with 400 on a malformed one, and sets req.body otherwise.
BodyParser(stage, ct) ==
    /\ pc = stage
    /\ \E t \in Header(req.contentType, ContentTypes) :
          IF t = ct /\ req.body \in {"undefined", "empty"}
             THEN \E kind \in BodyKinds, b \in Payloads :
                     /\ req' = [req EXCEPT !.contentType = t,
                                           !.body = IF kind = "ok" THEN b ELSE "empty"]
                     /\ Run(stage,
                            CASE kind = "huge" -> Raise(PayloadTooLargeError)
                              [] kind = "malformed" -> Raise(BodyParseError)
                              [] OTHER -> PassOn,
                            res.headers, After(stage))
             ELSE /\ req' = [req EXCEPT !.contentType = t,
                                        !.body = IF req.body = "undefined"
                                                    THEN "empty" ELSE req.body]
                  /\ Run(stage, PassOn, res.headers, After(stage))
    /\ UNCHANGED <<cfg, hits, served, authHits>>
    /\ UNCHANGED <<classifyVars, clientVars, limiterVars, sanitizeVars,
                   tokenVars, hashVars, authVars, storageVars>>

JsonParser == BodyParser("json", "application/json")

UrlencodedParser == BodyParser("urlencoded", "application/x-www-form-urlencoded")

\* The replace chain of sanitizeInput on the strings of a value: script
\* blocks are removed, "../" is left alone
Sanitize(p) == IF p = "script" THEN "clean" ELSE p

\* sanitizeInput: body and query are replaced by their sanitized copies
\* (req.params is empty at application level)
SanitizeInput ==
    /\ pc = "sanitizeInput"
    /\ req' = [req EXCEPT !.query = Sanitize(req.query),
                          !.body = IF req.body = "undefined" THEN req.body
                                   ELSE Sanitize(req.body)]
    /\ Run("sanitizeInput", PassOn, res.headers, After("sanitizeInput"))
    /\ UNCHANGED <<cfg, hits, served, authHits>>
    /\ UNCHANGED <<classifyVars, clientVars, limiterVars, sanitizeVars,
                   tokenVars, hashVars, authVars, storageVars>>

\* suspiciousPatterns.some(pattern => pattern.test(input))
Suspicious(p) == p \in {"script", "traversal"}

detectSuspiciousActivity_noReturn(suspicious, id) ==
    IF suspicious
       THEN Outcome(TRUE, 400, Body(FALSE, "Invalid request detected", id, <<>>, ""),
                    TRUE, NoErr)
       ELSE PassOn

detectSuspiciousActivity(suspicious, id) ==
    IF suspicious
       THEN Respond(400, Body(FALSE, "Invalid request detected", id, <<>>, ""))
       ELSE PassOn

DetectSuspiciousActivity ==
    /\ pc = "detectSuspiciousActivity"
    /\ Run("detectSuspiciousActivity",
           detectSuspiciousActivity(Suspicious(req.query) \/ Suspicious(req.body),
                                    req.id),
           res.headers, After("detectSuspiciousActivity"))
    /\ UNCHANGED <<cfg, req, hits, served, authHits>>
    /\ UNCHANGED <<classifyVars, clientVars, limiterVars, sanitizeVars,
                   tokenVars, hashVars, authVars, storageVars>>

MaliciousAgents == {"sqlmap"}

validateUserAgent(userAgent, id) ==
    IF userAgent = "none"
       THEN Respond(400, Body(FALSE, "User-Agent header is required", id, <<>>, ""))
    ELSE IF userAgent \in MaliciousAgents
       THEN Respond(403, Body(FALSE, "Access denied", NoId, <<>>, ""))
    ELSE PassOn

ValidateUserAgent ==
    /\ pc = "validateUserAgent"
    /\ \E ua \in Header(req.userAgent, UserAgents) :
          /\ req' = [req EXCEPT !.userAgent = ua]
          /\ Run("validateUserAgent", validateUserAgent(ua, req.id),
                 res.headers, After("validateUserAgent"))
    /\ UNCHANGED <<cfg, hits, served, authHits>>
    /\ UNCHANGED <<classifyVars, clientVars, limiterVars, sanitizeVars,
                   tokenVars, hashVars, authVars, storageVars>>

\* validateContentType(['application/json', 'multipart/form-data'])
AllowedTypes == {"application/json", "multipart/form-data"}

validateContentType_bodylessExempt(method, contentType, id) ==
    IF method \in {"GET", "DELETE"} THEN PassOn
    ELSE IF contentType \in {"none", ""}
       THEN Respond(400, Body(FALSE, "Content-Type header is required", id, <<>>, ""))
    ELSE IF contentType \notin AllowedTypes
       THEN Respond(415, Body(FALSE, "Unsupported Content-Type", id, <<>>, ""))
    ELSE PassOn

\* !contentType holds for an absent header and for an empty value
validateContentType(method, contentType, id) ==
    IF method = "GET" THEN PassOn
    ELSE IF contentType \in {"none", ""}
       THEN Respond(400, Body(FALSE, "Content-Type header is required", id, <<>>, ""))
    ELSE IF contentType \notin AllowedTypes
       THEN Respond(415, Body(FALSE, "Unsupported Content-Type", id, <<>>, ""))
    ELSE PassOn

ValidateContentType ==
    /\ pc = "validateContentType"
    /\ \E t \in Header(req.contentType, ContentTypes) :
          /\ req' = [req EXCEPT !.contentType = t]
          /\ Run("validateContentType", validateContentType(req.method, t, req.id),
                 res.headers, After("validateContentType"))
    /\ UNCHANGED <<cfg, hits, served, authHits>>
    /\ UNCHANGED <<classifyVars, clientVars, limiterVars, sanitizeVars,
                   tokenVars, hashVars, authVars, storageVars>>

\* express.static('uploads') mounted on /uploads: serves an existing file
\* to GET, falls through otherwise; other paths skip the stage
Static ==
    /\ pc = "static"
    /\ IF req.path = "/uploads/f"
          THEN \E exists \in BOOLEAN :
                  Run("static",
                      IF req.method = "GET" /\ exists
                         THEN Respond(200, EmptyBody) ELSE PassOn,
                      res.headers, After("static"))
          ELSE /\ pc' = After("static")
               /\ UNCHANGED <<res, err, log>>
    /\ UNCHANGED <<cfg, req, hits, served, authHits>>
    /\ UNCHANGED <<classifyVars, clientVars, limiterVars, sanitizeVars,
                   tokenVars, hashVars, authVars, storageVars>>

----------------------------------------------------------------------------
(* Routes, 404 handler and global error handler *)

\* ResponseHelper.success / ResponseHelper.error
ResponseSuccess(message, statusCode) ==
    Respond(statusCode, Body(TRUE, message, NoId, <<>>, ""))

ResponseError(message, statusCode, errors) ==
    Respond(statusCode, Body(FALSE, message, NoId, errors, ""))

Health ==
    /\ pc = "routes"
    /\ req.method = "GET" /\ req.path = "/health"
    /\ Run("health", Respond(200, Body(TRUE, "Server is running", NoId, <<>>, "")),
           res.headers, "done")
    /\ UNCHANGED <<cfg, req, hits, served, authHits>>
    /\ UNCHANGED <<classifyVars, clientVars, limiterVars, sanitizeVars,
                   tokenVars, hashVars, authVars, storageVars>>

ApiInfo ==
    /\ pc = "routes"
    /\ req.method = "GET" /\ req.path = "/api"
    /\ Run("apiInfo", Respond(200, Body(TRUE, "API is running", NoId, <<>>, "")),
           res.headers, "done")
    /\ UNCHANGED <<cfg, req, hits, served, authHits>>
    /\ UNCHANGED <<classifyVars, clientVars, limiterVars, sanitizeVars,
                   tokenVars, hashVars, authVars, storageVars>>

\* Failures of the upload that handleMulterError hands on with next(err)
UploadFailures ==
    {PlainError("upload failed"),
     Failure("storage full", 0, 507, "Error", "", <<>>, "stack")}

\* POST /api/uploads/avatar: multer, handleMulterError, validateFileExists,
\* logFileUpload and the handler.  Multer reads multipart bodies only.
UploadAvatar ==
    /\ pc = "routes"
    /\ req.method = "POST" /\ req.path = "/api/uploads/avatar"
    /\ \/ /\ req.contentType = "multipart/form-data"
          /\ \/ Run("uploadAvatar",
                    Respond(400, Body(FALSE, "File upload error", req.id, <<>>, "")),
                    res.headers, "done")
             \/ \E e \in UploadFailures :
                   Run("uploadAvatar", Raise(e), res.headers, "done")
             \/ Run("uploadAvatar",
                    ResponseSuccess("Avatar uploaded successfully", 201),
                    res.headers, "done")
       \/ Run("uploadAvatar",
              Respond(400, Body(FALSE, "No file uploaded", req.id, <<>>, "")),
              res.headers, "done")
    /\ UNCHANGED <<cfg, req, hits, served, authHits>>
    /\ UNCHANGED <<classifyVars, clientVars, limiterVars, sanitizeVars,
                   tokenVars, hashVars, authVars, storageVars>>

\* DELETE /api/uploads/:filename.  The router fills req.params from the
\* path when it matches the route, after the application-level stages have
\* run; the handler reads req.params.filename and req.query.type.
DeleteFile ==
    /\ pc = "routes"
    /\ req.method = "DELETE" /\ req.path = "/api/uploads/avatar"
    /\ req' = [req EXCEPT !.params = req.segment]
    /\ \E deleted \in BOOLEAN :
          Run("deleteFile",
              IF deleted THEN ResponseSuccess("File deleted successfully", 200)
              ELSE ResponseError("Failed to delete file", 500, <<>>),
              res.headers, "done")
    /\ UNCHANGED <<cfg, hits, served, authHits>>
    /\ UNCHANGED <<classifyVars, clientVars, limiterVars, sanitizeVars,
                   tokenVars, hashVars, authVars, storageVars>>

Routed ==
    \/ req.method = "GET" /\ req.path \in {"/health", "/api"}
    \/ req.method \in {"POST", "DELETE"} /\ req.path = "/api/uploads/avatar"

\* The 404 handler: no route took the request
NotFound ==
    /\ pc = "routes"
    /\ ~Routed
    /\ Run("notFound", Respond(404, Body(FALSE, "Route not found", req.id, <<>>, "")),
           res.headers, "done")
    /\ UNCHANGED <<cfg, req, hits, served, authHits>>
    /\ UNCHANGED <<classifyVars, clientVars, limiterVars, sanitizeVars,
                   tokenVars, hashVars, authVars, storageVars>>

\* The global error handler
ErrorHandler ==
    /\ pc = "errorHandler"
    /\ LET a == Classify(err, cfg.env, req.id)
       IN Run("errorHandler", Respond(a.status, a.body), res.headers, "done")
    /\ UNCHANGED <<cfg, req, hits, served, authHits>>
    /\ UNCHANGED <<classifyVars, clientVars, limiterVars, sanitizeVars,
                   tokenVars, hashVars, authVars, storageVars>>

----------------------------------------------------------------------------
(* Token service: jwt.ts over jsonwebtoken *)

JwtSecrets == {"k1", "k2"}

\* A token: the secret it was signed with, its exp claim, and whether it
\* parses as a JWT at all
Tokens == [secret : JwtSecrets \cup {"forged"}, exp : 1..2, wellFormed : BOOLEAN]

Times == 0..MaxTime

\* jwt.verify(token, secret) when the clock reads at: the name of the error it throws,
\* "" when the token verifies.  The signature is checked before the expiry.
JwtVerify_expiryFirst(token, secret, at) ==
    IF ~token.wellFormed THEN "JsonWebTokenError"
    ELSE IF at >= token.exp THEN "TokenExpiredError"
    ELSE IF token.secret # secret THEN "JsonWebTokenError"
    ELSE ""

JwtVerify(token, secret, at) ==
    IF ~token.wellFormed THEN "JsonWebTokenError"
    ELSE IF token.secret # secret THEN "JsonWebTokenError"
    ELSE IF at >= token.exp THEN "TokenExpiredError"
    ELSE ""

\* verifyAccessToken: what it throws (NoErr when it returns the payload)
verifyAccessToken(token, at) ==
    LET thrown == JwtVerify(token, jwtCfg.secret, at)
    IN IF thrown = "TokenExpiredError" THEN PlainError("Token expired")
       ELSE IF thrown = "JsonWebTokenError" THEN PlainError("Invalid token")
       ELSE NoErr

\* verifyRefreshToken: what it throws (NoErr when it returns the payload)
verifyRefreshToken(token, at) ==
    LET thrown == JwtVerify(token, jwtCfg.refreshSecret, at)
    IN IF thrown = "TokenExpiredError" THEN PlainError("Refresh token expired")
       ELSE IF thrown = "JsonWebTokenError" THEN PlainError("Invalid refresh token")
       ELSE NoErr

----------------------------------------------------------------------------
(* Failures on their way to the global error handler *)

\* err.message and err.stack of the failures handlers raise
Messages == {CorsMessage, "boom", ""}

Stacks == {"stack", "trace"}

FailureSpace ==
    {Failure(m, st, sc, n, t, es, s) :
        <<m, st, sc, n, t, es, s>> \in
            {x \in Messages \X {0, 429, 400} \X {0, 418}
                   \X {"Error", "ValidationError", "JsonWebTokenError",
                       "TokenExpiredError"}
                   \X {"", "entity.too.large"}
                   \X {<<>>, <<"email is required">>}
                   \X Stacks :
                x[6] = <<>> \/ x[4] = "ValidationError"}}

NoSource == [by |-> "none", cause |-> ""]

ClassifyInit ==
    /\ fl = NoErr
    /\ flSrc = NoSource
    /\ flEnv \in Envs
    /\ flRes = Answer(0, EmptyBody)
    /\ flPc = "raise"
    /\ jwtCfg \in [secret : JwtSecrets, refreshSecret : JwtSecrets]

\* A handler or a stage hands a failure to next(err)
HandlerRaises ==
    /\ flPc = "raise"
    /\ \E e \in FailureSpace : fl' = e
    /\ flSrc' = [by |-> "handler", cause |-> ""]
    /\ flPc' = "raised"
    /\ UNCHANGED <<flEnv, flRes, jwtCfg>>
    /\ UNCHANGED <<serverVars, clientVars, limiterVars, sanitizeVars,
                   tokenVars, hashVars, authVars, storageVars>>

\* A handler verifies an access token; a failed verification is thrown on
VerifyAccess ==
    /\ flPc = "raise"
    /\ \E token \in Tokens, at \in Times :
          /\ fl' = verifyAccessToken(token, at)
          /\ flSrc' = [by |-> "verifyAccessToken",
                       cause |-> JwtVerify(token, jwtCfg.secret, at)]
          /\ flPc' = IF verifyAccessToken(token, at) = NoErr
                        THEN "verified" ELSE "raised"
    /\ UNCHANGED <<flEnv, flRes, jwtCfg>>
    /\ UNCHANGED <<serverVars, clientVars, limiterVars, sanitizeVars,
                   tokenVars, hashVars, authVars, storageVars>>

\* A handler verifies a refresh token; a failed verification is thrown on
VerifyRefresh ==
    /\ flPc = "raise"
    /\ \E token \in Tokens, at \in Times :
          /\ fl' = verifyRefreshToken(token, at)
          /\ flSrc' = [by |-> "verifyRefreshToken",
                       cause |-> JwtVerify(token, jwtCfg.refreshSecret, at)]
          /\ flPc' = IF verifyRefreshToken(token, at) = NoErr
                        THEN "verified" ELSE "raised"
    /\ UNCHANGED <<flEnv, flRes, jwtCfg>>
    /\ UNCHANGED <<serverVars, clientVars, limiterVars, sanitizeVars,
                   tokenVars, hashVars, authVars, storageVars>>

\* The global error handler answers the failure
AnswerFailure ==
    /\ flPc = "raised"
    /\ flRes' = Classify(fl, flEnv, 1)
    /\ flPc' = "answered"
    /\ UNCHANGED <<fl, flSrc, flEnv, jwtCfg>>
    /\ UNCHANGED <<serverVars, clientVars, limiterVars, sanitizeVars,
                   tokenVars, hashVars, authVars, storageVars>>

----------------------------------------------------------------------------
(* The client: api.ts over axios, utils/security.ts *)

NoTok == [exp |-> 0, gen |-> 0]

\* isTokenExpired: no token, or Date.now() at or past exp
isTokenExpired_strictlyPast(token, t) == token = NoTok \/ t > token.exp

isTokenExpired(token, t) == token = NoTok \/ t >= token.exp

\* new RateLimiter(maxRequests, timeWindow): requests is the Map from
\* identifier to timestamps; a key the Map lacks reads as the empty list
Idents == {"anonymous", "u1"}

RateLimiter(maxRequests, timeWindow) ==
    [maxRequests |-> maxRequests, timeWindow |-> timeWindow,
     requests |-> [i \in Idents |-> <<>>]]

\* The filter of isAllowed: the timestamps still inside the time window
RecentRequests_noEviction(r, identifier, t) == r.requests[identifier]

RecentRequests(r, identifier, t) ==
    SelectSeq(r.requests[identifier], LAMBDA ts : t - ts < r.timeWindow)

\* RateLimiter.isAllowed at time t: the verdict and the limiter afterwards
isAllowed_alwaysRecords(r, identifier, t) ==
    LET recentRequests == RecentRequests(r, identifier, t)
    IN [allowed |-> Len(recentRequests) < r.maxRequests,
        rl |-> [r EXCEPT !.requests[identifier] = Append(recentRequests, t)]]

isAllowed(r, identifier, t) ==
    LET recentRequests == RecentRequests(r, identifier, t)
    IN IF Len(recentRequests) >= r.maxRequests
          THEN [allowed |-> FALSE, rl |-> r]
          ELSE [allowed |-> TRUE,
                rl |-> [r EXCEPT !.requests[identifier] =
                                     Append(recentRequests, t)]]

\* RateLimiter.reset: requests.delete(identifier)
reset(r, identifier) == [r EXCEPT !.requests[identifier] = <<>>]

\* validateStatus of apiClient: which statuses resolve the request
validateStatus(status) == status < 500

\* The test that opens the refresh branch of the response error handler
ShouldRefresh_anyFailure(status, retried) == status >= 401

ShouldRefresh(status, retried) == status = 401 /\ ~retried

\* handleApiError: the message category of a rejected request
handleApiError(status) ==
    CASE status = 0 -> "NETWORK"
      [] status = 401 -> "UNAUTHORIZED"
      [] status = 404 -> "NOT_FOUND"
      [] status = 400 -> "VALIDATION"
      [] status = 500 -> "SERVER_ERROR"
      [] OTHER -> "An error occurred"

ClientStatuses == {200, 401, 429, 500}

\* The methods that get the X-CSRF-Token header
StateChanging == {"post", "put", "patch", "delete"}

\* The CSRF token of a state-changing request: the one in sessionStorage
\* under 'csrf_token' (0: none), else the one generateCSRFToken() makes
CsrfToken_perRequest(stored, fresh) == fresh

CsrfToken(stored, fresh) == IF stored = 0 THEN fresh ELSE stored

\* The requests of one run; several can be in flight at once
CallIds == 1..MaxCalls

NoCall == [method |-> "get", retry |-> FALSE, auth |-> NoTok, csrf |-> 0,
           refreshWith |-> NoTok]

NoHist ==
    [dispatches |-> 0, refreshCalls |-> 0, refreshOk |-> FALSE,
     received |-> <<>>, auths |-> <<>>, outcome |-> "none", status |-> 0,
     message |-> "", refreshable |-> FALSE]

NoClientErr == [status |-> 0, hasConfig |-> FALSE]

ClientInit ==
    /\ store \in [access : {NoTok, [exp |-> 1, gen |-> 0], [exp |-> 2, gen |-> 0]},
                  refresh : {NoTok, [exp |-> 1, gen |-> 0], [exp |-> 3, gen |-> 0]},
                  user : {"none", "u1"},
                  csrf : {0}]
    /\ location = "/admin"
    /\ now = 0
    /\ limiter = RateLimiter(ApiRateLimit, ApiWindow)
    /\ call = [i \in CallIds |-> NoCall]
    /\ cPc = [i \in CallIds |-> "idle"]
    /\ cErr = [i \in CallIds |-> NoClientErr]
    /\ hist = [i \in CallIds |-> NoHist]
    /\ issued = 0

\* The application calls api.get / api.post; it does not wait for the
\* requests it made before
StartCall ==
    /\ issued < MaxCalls
    /\ issued' = issued + 1
    /\ \E m \in {"get", "post"} :
          call' = [call EXCEPT ![issued + 1] = [NoCall EXCEPT !.method = m]]
    /\ cPc' = [cPc EXCEPT ![issued + 1] = "request"]
    /\ UNCHANGED <<store, location, now, limiter, cErr, hist>>
    /\ UNCHANGED <<serverVars, classifyVars, limiterVars, sanitizeVars,
                   tokenVars, hashVars, authVars, storageVars>>

Tick ==
    /\ now < MaxTime
    /\ now' = now + 1
    /\ UNCHANGED <<store, location, limiter, call, cPc, cErr, hist, issued>>
    /\ UNCHANGED <<serverVars, classifyVars, limiterVars, sanitizeVars,
                   tokenVars, hashVars, authVars, storageVars>>

\* The request interceptor: rate-limit check, bearer token with expiry
\* check, CSRF token for state-changing methods; then the request goes on
\* the wire.  A rejection here travels down the interceptor chain to the
\* response error handler.  The interceptor is synchronous: it runs to its
\* end before any other callback of the page.
RequestInterceptor ==
    \E i \in CallIds :
    /\ cPc[i] = "request"
    /\ LET userId == IF store.user = "none" THEN "anonymous" ELSE store.user
           check == isAllowed(limiter, userId, now)
       IN /\ limiter' = check.rl
          /\ IF ~check.allowed
                THEN /\ cErr' = [cErr EXCEPT ![i] = NoClientErr]
                     /\ cPc' = [cPc EXCEPT ![i] = "onRejected"]
                     /\ UNCHANGED <<store, location, call, hist>>
             ELSE IF store.access # NoTok /\ isTokenExpired(store.access, now)
                THEN /\ store' = [store EXCEPT !.access = NoTok]
                     /\ location' = "/admin/auth"
                     /\ cErr' = [cErr EXCEPT ![i] = NoClientErr]
                     /\ cPc' = [cPc EXCEPT ![i] = "onRejected"]
                     /\ UNCHANGED <<call, hist>>
             ELSE LET csrfToken == CsrfToken(store.csrf, i)
                      mutating == call[i].method \in StateChanging
                      bearer == IF store.access # NoTok THEN store.access
                                ELSE call[i].auth
                  IN /\ store' = IF mutating
                                    THEN [store EXCEPT !.csrf = csrfToken]
                                    ELSE store
                     /\ call' = [call EXCEPT
                                   ![i].auth = bearer,
                                   ![i].csrf = IF mutating THEN csrfToken ELSE @]
                     /\ hist' = [hist EXCEPT
                                   ![i].dispatches = @ + 1,
                                   ![i].auths = Append(@, bearer)]
                     /\ cPc' = [cPc EXCEPT ![i] = "wire"]
                     /\ UNCHANGED <<location, cErr>>
    /\ UNCHANGED <<now, issued>>
    /\ UNCHANGED <<serverVars, classifyVars, limiterVars, sanitizeVars,
                   tokenVars, hashVars, authVars, storageVars>>

\* The server answers (or the network fails); axios settles the request
\* with validateStatus
ServerResponds ==
    \E i \in CallIds :
    /\ cPc[i] = "wire"
    /\ \E status \in ClientStatuses :
          /\ hist' = [hist EXCEPT
                        ![i].received = Append(@, status),
                        ![i].refreshable =
                            IF hist[i].received = <<>>
                               THEN status = 401 /\ ~isTokenExpired(store.refresh, now)
                               ELSE @]
          /\ IF validateStatus(status)
                THEN /\ cPc' = [cPc EXCEPT ![i] = "onFulfilled"]
                     /\ cErr' = [cErr EXCEPT ![i] = NoClientErr]
                ELSE /\ cPc' = [cPc EXCEPT ![i] = "onRejected"]
                     /\ cErr' = [cErr EXCEPT ![i] = [status |-> status,
                                                     hasConfig |-> TRUE]]
    /\ UNCHANGED <<store, location, now, limiter, call, issued>>
    /\ UNCHANGED <<serverVars, classifyVars, limiterVars, sanitizeVars,
                   tokenVars, hashVars, authVars, storageVars>>

NetworkFails ==
    \E i \in CallIds :
    /\ cPc[i] = "wire"
    /\ cPc' = [cPc EXCEPT ![i] = "onRejected"]
    /\ cErr' = [cErr EXCEPT ![i] = [status |-> 0, hasConfig |-> TRUE]]
    /\ UNCHANGED <<store, location, now, limiter, call, hist, issued>>
    /\ UNCHANGED <<serverVars, classifyVars, limiterVars, sanitizeVars,
                   tokenVars, hashVars, authVars, storageVars>>

\* The response interceptor's success handler: the caller gets response.data
ResponseFulfilled ==
    \E i \in CallIds :
    /\ cPc[i] = "onFulfilled"
    /\ hist' = [hist EXCEPT ![i].outcome = "resolved",
                            ![i].status = hist[i].received[Len(hist[i].received)]]
    /\ cPc' = [cPc EXCEPT ![i] = "settled"]
    /\ UNCHANGED <<store, location, now, limiter, call, cErr, issued>>
    /\ UNCHANGED <<serverVars, classifyVars, limiterVars, sanitizeVars,
                   tokenVars, hashVars, authVars, storageVars>>

\* What the refresh endpoint may answer to axios.post: new tokens (with or
\* without a new refresh token), or a failure
RefreshAnswers == {"ok", "rotated", "failed"}

Surface(i, status) ==
    [hist EXCEPT ![i].outcome = "rejected", ![i].status = status,
                 ![i].message = IF status = 429
                                   THEN "Too many requests. Please slow down."
                                   ELSE handleApiError(status)]

\* The response interceptor's error handler.  It is an async function with
\* one await, on the refresh call: the part before the await runs when the
\* request is rejected, the part after it when axios.post settles, and
\* other callbacks of the page run in between.
ResponseRejected ==
    \E i \in CallIds :
    /\ \/ /\ cPc[i] = "onRejected"
          /\ IF cErr[i].hasConfig /\ ShouldRefresh(cErr[i].status, call[i].retry)
                THEN IF ~isTokenExpired(store.refresh, now)
                        THEN /\ call' = [call EXCEPT ![i].retry = TRUE,
                                                     ![i].refreshWith = store.refresh]
                             /\ hist' = [hist EXCEPT ![i].refreshCalls = @ + 1]
                             /\ cPc' = [cPc EXCEPT ![i] = "refreshing"]
                             /\ UNCHANGED <<store, location>>
                        ELSE /\ call' = [call EXCEPT ![i].retry = TRUE]
                             /\ hist' = Surface(i, cErr[i].status)
                             /\ cPc' = [cPc EXCEPT ![i] = "settled"]
                             /\ UNCHANGED <<store, location>>
                ELSE /\ hist' = Surface(i, cErr[i].status)
                     /\ cPc' = [cPc EXCEPT ![i] = "settled"]
                     /\ UNCHANGED <<store, location, call>>
       \/ /\ cPc[i] = "refreshing"
          /\ \E answer \in RefreshAnswers :
                IF answer = "failed"
                   THEN /\ store' = [access |-> NoTok, refresh |-> NoTok,
                                     user |-> "none", csrf |-> 0]
                        /\ location' = "/admin/auth"
                        /\ hist' = [hist EXCEPT ![i].outcome = "rejected",
                                                ![i].status = 0,
                                                ![i].message = "refresh failed"]
                        /\ cPc' = [cPc EXCEPT ![i] = "settled"]
                        /\ UNCHANGED call
                   ELSE LET accessToken == [exp |-> now + 2,
                                            gen |-> call[i].refreshWith.gen + 1]
                            newRefresh == [exp |-> now + 3,
                                           gen |-> call[i].refreshWith.gen + 1]
                        IN /\ store' = [store EXCEPT
                                          !.access = accessToken,
                                          !.refresh = IF answer = "rotated"
                                                         THEN newRefresh ELSE @]
                           /\ call' = [call EXCEPT ![i].auth = accessToken]
                           /\ hist' = [hist EXCEPT ![i].refreshOk = TRUE]
                           /\ cPc' = [cPc EXCEPT ![i] = "request"]
                           /\ UNCHANGED location
    /\ UNCHANGED <<now, limiter, cErr, issued>>
    /\ UNCHANGED <<serverVars, classifyVars, limiterVars, sanitizeVars,
                   tokenVars, hashVars, authVars, storageVars>>

----------------------------------------------------------------------------
(* The rate limiters on their own *)

NoLimiterCall ==
    [op |-> "none", identifier |-> "anonymous", allowed |-> FALSE,
     recorded |-> FALSE, earlier |-> 0]

\* The entries of a list of timestamps inside the window that ends at t
InWindow(stamps, t, window) == SelectSeq(stamps, LAMBDA ts : t - ts < window)

\* generalLimiter's test on the count its store returns for the hit
rateLimitExceeded_offByOne(totalHits, max) == totalHits > max + 1

rateLimitExceeded(totalHits, max) == totalHits > max

\* The requests of one IP that are in the limiter at the same time
GlRequests == 1..MaxRequests

LimiterInit ==
    /\ rl \in {RateLimiter(m, w) : m \in 1..MaxLimiterRequests,
                                   w \in 1..MaxLimiterWindow}
    /\ rlNow = 0
    /\ rlLast = NoLimiterCall
    /\ rlLog = [i \in Idents |-> <<>>]
    /\ gl \in [max : 1..MaxRateLimit, hits : {0},
                at : {[i \in GlRequests |-> "limiter"]},
                totalHits : {[i \in GlRequests |-> 0]}]

\* A caller asks rl.isAllowed(identifier).  The method is synchronous, so
\* calls made for requests that are under way together run one after the
\* other, in either order.
IsAllowedCall ==
    /\ \E identifier \in Idents :
          LET check == isAllowed(rl, identifier, rlNow)
          IN /\ rl' = check.rl
             /\ rlLast' = [op |-> "isAllowed", identifier |-> identifier,
                           allowed |-> check.allowed,
                           recorded |-> check.rl # rl,
                           earlier |-> Len(InWindow(rlLog[identifier], rlNow,
                                                    rl.timeWindow))]
             /\ rlLog' = IF check.allowed
                            THEN [rlLog EXCEPT ![identifier] = Append(@, rlNow)]
                            ELSE rlLog
    /\ UNCHANGED <<rlNow, gl>>
    /\ UNCHANGED <<serverVars, classifyVars, clientVars, sanitizeVars,
                   tokenVars, hashVars, authVars, storageVars>>

ResetCall ==
    /\ \E identifier \in Idents :
          /\ rl.requests[identifier] # <<>>
          /\ rl' = reset(rl, identifier)
          /\ rlLast' = [NoLimiterCall EXCEPT !.op = "reset",
                                             !.identifier = identifier]
          /\ rlLog' = [rlLog EXCEPT ![identifier] = <<>>]
    /\ UNCHANGED <<rlNow, gl>>
    /\ UNCHANGED <<serverVars, classifyVars, clientVars, sanitizeVars,
                   tokenVars, hashVars, authVars, storageVars>>

LimiterTick ==
    /\ rlNow < MaxTime
    /\ rlNow' = rlNow + 1
    /\ UNCHANGED <<rl, rlLast, rlLog, gl>>
    /\ UNCHANGED <<serverVars, classifyVars, clientVars, sanitizeVars,
                   tokenVars, hashVars, authVars, storageVars>>

\* generalLimiter counts the hit of a request: store.increment(key) adds
\* one to the count of the IP and returns the new count in one step of the
\* event loop
LimiterIncrement ==
    /\ \E i \in GlRequests :
          /\ gl.at[i] = "limiter"
          /\ gl' = [gl EXCEPT !.hits = @ + 1,
                              !.totalHits[i] = gl.hits + 1,
                              !.at[i] = "counted"]
    /\ UNCHANGED <<rl, rlNow, rlLast, rlLog>>
    /\ UNCHANGED <<serverVars, classifyVars, clientVars, sanitizeVars,
                   tokenVars, hashVars, authVars, storageVars>>

\* ... and answers 429 or calls next() on the count it was given
LimiterDecide ==
    /\ \E i \in GlRequests :
          /\ gl.at[i] = "counted"
          /\ gl' = [gl EXCEPT !.at[i] =
                                 IF rateLimitExceeded(gl.totalHits[i], gl.max)
                                    THEN "limited" ELSE "passed"]
    /\ UNCHANGED <<rl, rlNow, rlLast, rlLog>>
    /\ UNCHANGED <<serverVars, classifyVars, clientVars, sanitizeVars,
                   tokenVars, hashVars, authVars, storageVars>>

----------------------------------------------------------------------------
(* The sanitizer of sanitizeInput on JSON values.  A value is a node       *)
(* [t, v, kv]: t is its type, v the text of a leaf, kv the members of an   *)
(* object or array by key (an array's keys are "0", "1", ... as for..in    *)
(* yields them).                                                           *)

NoMembers == [k \in {} |-> 0]

Leaf(t, v) == [t |-> t, v |-> v, kv |-> NoMembers]

\* The strings of a value: free of markup, holding a <script> block, or
\* holding a data:text/html URI
Leaves ==
    {Leaf("string", v) : v \in {"clean", "script", "dataUri"}}
        \cup {Leaf("number", "1"), Leaf("boolean", "true"), Leaf("null", "null")}

\* Keys of JSON objects; JSON.parse makes "__proto__" an own property
ObjectKeys == {"a", "__proto__"}

ArrayKeys == { {}, {"0"} }

\* The JSON values of nesting depth at most d
RECURSIVE Values(_)
Values(d) ==
    IF d = 0 THEN Leaves
    ELSE LET sub == Values(d - 1)
         IN sub
            \cup {[t |-> "object", v |-> "", kv |-> f] :
                     f \in UNION {[K -> sub] : K \in SUBSET ObjectKeys}}
            \cup {[t |-> "array", v |-> "", kv |-> f] :
                     f \in UNION {[K -> sub] : K \in ArrayKeys}}

\* typeof value === 'object': objects, arrays and null
IsObject(value) == value.t \in {"object", "array", "null"}

\* sanitized[key] = value on the fresh {} or []: an own property, except
\* that the key "__proto__" reaches the setter of Object.prototype, which
\* makes an object value the prototype of sanitized and ignores any other
\* value; no own property is created
OwnKeys(obj) == DOMAIN obj.kv \ {"__proto__"}

\* sanitize of sanitizeInput
RECURSIVE sanitize(_)
sanitize(obj) ==
    IF ~IsObject(obj) \/ obj.t = "null" THEN obj
    ELSE [obj EXCEPT !.kv =
            [key \in OwnKeys(obj) |->
                LET value == obj.kv[key]
                IN IF value.t = "string" THEN Leaf("string", Sanitize(value.v))
                   ELSE IF IsObject(value) THEN sanitize(value)
                   ELSE value]]

\* SanitizeHelper.removeXSS: the replace chain of sanitizeInput and the
\* removal of data:text/html
removeXSS(text) == IF text \in {"script", "dataUri"} THEN "clean" ELSE text

\* SanitizeHelper.object(obj, deep): the result is built on a fresh {}; the
\* members of an array are mapped, objects (typeof item === 'object': null
\* and arrays too) through object() and everything else as it is
RECURSIVE object(_, _)
object(obj, deep) ==
    [t |-> "object", v |-> "",
     kv |-> [key \in OwnKeys(obj) |->
                LET value == obj.kv[key]
                IN IF value.t = "string" THEN Leaf("string", removeXSS(value.v))
                   ELSE IF deep /\ IsObject(value) /\ value.t # "null"
                      THEN IF value.t = "array"
                              THEN [value EXCEPT !.kv =
                                      [k \in DOMAIN value.kv |->
                                          LET item == value.kv[k]
                                          IN IF IsObject(item)
                                                THEN object(item, deep)
                                                ELSE item]]
                              ELSE object(value, deep)
                   ELSE value]]

SanitizeInit ==
    /\ sanIn \in Values(MaxDepth)
    /\ sanOut = Leaf("null", "null")
    /\ sanPc = "call"

\* req.body = sanitize(req.body), and the same for req.query and req.params
SanitizeCall ==
    /\ sanPc = "call"
    /\ sanOut' = sanitize(sanIn)
    /\ sanPc' = "done"
    /\ UNCHANGED sanIn
    /\ UNCHANGED <<serverVars, classifyVars, clientVars, limiterVars,
                   tokenVars, hashVars, authVars, storageVars>>

\* sanitize.object(data) on an object that is to be stored or displayed
SanitizeObjectCall ==
    /\ sanPc = "call"
    /\ sanIn.t = "object"
    /\ sanOut' = object(sanIn, TRUE)
    /\ sanPc' = "objectDone"
    /\ UNCHANGED sanIn
    /\ UNCHANGED <<serverVars, classifyVars, clientVars, limiterVars,
                   tokenVars, hashVars, authVars, storageVars>>

----------------------------------------------------------------------------
(* The life of one token *)

\* config.jwt.expire and config.jwt.refreshExpire, in clock ticks
AccessExpire == 1

RefreshExpire == 2

NoToken == [secret |-> "", exp |-> 0, wellFormed |-> FALSE, issuedAs |-> "none"]

\* jwt.sign(payload, secret, {expiresIn}) when the clock reads at
JwtSign(secret, expiresIn, at) ==
    [secret |-> secret, exp |-> at + expiresIn, wellFormed |-> TRUE]

generateAccessToken(at) == JwtSign(jwtCfg.secret, AccessExpire, at)

generateRefreshToken(at) == JwtSign(jwtCfg.refreshSecret, RefreshExpire, at)

\* The token as jwt.verify sees it
Presented(t) == [secret |-> t.secret, exp |-> t.exp, wellFormed |-> t.wellFormed]

NoVerification == [by |-> "none", at |-> 0, thrown |-> ""]

TokenInit ==
    /\ jwtCfg \in [secret : JwtSecrets, refreshSecret : JwtSecrets]
    /\ tok = NoToken
    /\ tokNow = 0
    /\ tokLast = NoVerification
    /\ tokSeen = [valid |-> FALSE, expired |-> FALSE]

GenerateAccessToken ==
    /\ tok = NoToken
    /\ tok' = [secret |-> generateAccessToken(tokNow).secret,
               exp |-> generateAccessToken(tokNow).exp,
               wellFormed |-> TRUE, issuedAs |-> "access"]
    /\ UNCHANGED <<tokNow, tokLast, tokSeen>>
    /\ UNCHANGED <<serverVars, classifyVars, clientVars, limiterVars,
                   sanitizeVars, hashVars, authVars, storageVars>>

GenerateRefreshToken ==
    /\ tok = NoToken
    /\ tok' = [secret |-> generateRefreshToken(tokNow).secret,
               exp |-> generateRefreshToken(tokNow).exp,
               wellFormed |-> TRUE, issuedAs |-> "refresh"]
    /\ UNCHANGED <<tokNow, tokLast, tokSeen>>
    /\ UNCHANGED <<serverVars, classifyVars, clientVars, limiterVars,
                   sanitizeVars, hashVars, authVars, storageVars>>

\* A token the service did not issue: signed with another secret
ForeignToken ==
    /\ tok = NoToken
    /\ \E exp \in 1..2 :
          tok' = [secret |-> "forged", exp |-> exp, wellFormed |-> TRUE,
                  issuedAs |-> "foreign"]
    /\ UNCHANGED <<tokNow, tokLast, tokSeen>>
    /\ UNCHANGED <<serverVars, classifyVars, clientVars, limiterVars,
                   sanitizeVars, hashVars, authVars, storageVars>>

TokenTick ==
    /\ tokNow < MaxTime
    /\ tokNow' = tokNow + 1
    /\ UNCHANGED <<tok, tokLast, tokSeen>>
    /\ UNCHANGED <<serverVars, classifyVars, clientVars, limiterVars,
                   sanitizeVars, hashVars, authVars, storageVars>>

\* What a verification leaves behind
Verified(by, thrown) ==
    /\ tokLast' = [by |-> by, at |-> tokNow, thrown |-> thrown.message]
    /\ tokSeen' = [valid |-> tokSeen.valid \/ thrown = NoErr,
                   expired |-> tokSeen.expired
                               \/ thrown.message \in {"Token expired",
                                                       "Refresh token expired"}]

VerifyAccessToken ==
    /\ tok # NoToken
    /\ Verified("verifyAccessToken", verifyAccessToken(Presented(tok), tokNow))
    /\ UNCHANGED <<tok, tokNow>>
    /\ UNCHANGED <<serverVars, classifyVars, clientVars, limiterVars,
                   sanitizeVars, hashVars, authVars, storageVars>>

VerifyRefreshToken ==
    /\ tok # NoToken
    /\ Verified("verifyRefreshToken", verifyRefreshToken(Presented(tok), tokNow))
    /\ UNCHANGED <<tok, tokNow>>
    /\ UNCHANGED <<serverVars, classifyVars, clientVars, limiterVars,
                   sanitizeVars, hashVars, authVars, storageVars>>

----------------------------------------------------------------------------
(* SecretsManager: hash and verifyHash.  A hash is the hex string of the   *)
(* PBKDF2 output, HashLen characters long (128 in the code).               *)

HashData == {"d1", "d2"}

\* The salt argument: "" stands for the falsy values (null, '')
HashSalts == {"", "s1", "s2"}

\* crypto.randomBytes(16).toString('hex')
RandomSalts == {"r1", "r2"}

HexDigit(n) == CASE n = 0 -> "0" [] n = 1 -> "1" [] OTHER -> "2"

SaltIndex(salt) ==
    CASE salt = "s1" -> 0 [] salt = "s2" -> 1 [] salt = "r1" -> 2 [] OTHER -> 3

\* crypto.pbkdf2Sync(data, salt, 100000, 64, 'sha512').toString('hex'): a
\* string of fixed length that differs for different (data, salt)
Pbkdf2(data, salt) ==
    LET n == (IF data = "d1" THEN 0 ELSE 4) + SaltIndex(salt)
    IN [k \in 1..HashLen |-> HexDigit((n \div (3 ^ (k - 1))) % 3)]

\* SecretsManager.hash: the results it may return (one for a given salt,
\* one per random salt when the salt argument is falsy)
hash(data, salt) ==
    {[hash |-> Pbkdf2(data, actualSalt), salt |-> actualSalt] :
        actualSalt \in (IF salt = "" THEN RandomSalts ELSE {salt})}

\* crypto.timingSafeEqual on the bytes of two strings: it throws a
\* RangeError when the byte lengths differ
timingSafeEqual(a, b) ==
    IF Len(a) # Len(b) THEN "throws"
    ELSE IF a = b THEN "true" ELSE "false"

\* SecretsManager.verifyHash: what a call may do
verifyHash(data, h, salt) ==
    {timingSafeEqual(h, r.hash) : r \in hash(data, salt)}

\* The strings a caller may present as h
PresentedHashes ==
    UNION {[1..n -> {"0", "1", "2"}] : n \in 0..(HashLen + 1)}

NoHashResult == [hash |-> <<>>, salt |-> ""]

HashInit ==
    /\ hashIn \in [data : HashData, salt : HashSalts, h : PresentedHashes]
    /\ hashRes = NoHashResult
    /\ hashOut = "none"
    /\ hashPc = "hash"

\* hash(data, salt)
HashCall ==
    /\ hashPc = "hash"
    /\ hashRes' \in hash(hashIn.data, hashIn.salt)
    /\ hashPc' = "verify"
    /\ UNCHANGED <<hashIn, hashOut>>
    /\ UNCHANGED <<serverVars, classifyVars, clientVars, limiterVars,
                   sanitizeVars, tokenVars, authVars, storageVars>>

\* verifyHash(data, h, salt)
VerifyHashCall ==
    /\ hashPc = "verify"
    /\ hashOut' \in verifyHash(hashIn.data, hashIn.h, hashIn.salt)
    /\ hashPc' = "done"
    /\ UNCHANGED <<hashIn, hashRes>>
    /\ UNCHANGED <<serverVars, classifyVars, clientVars, limiterVars,
                   sanitizeVars, tokenVars, authVars, storageVars>>

----------------------------------------------------------------------------
(* The frontend's authentication: authService over the storage, the thunks *)
(* and reducers of authSlice, and ProtectedRoute.  A user is known by its  *)
(* role; "none" stands for null / no entry.                                *)

ThunkKinds == {"login", "register", "logout", "fetchProfile"}

UserRoles == {"admin", "user"}

\* The thunks dispatched in one run; they may be pending together
ThunkIds == 1..MaxThunks

EmptyStorage == [access |-> "none", refresh |-> "none", user |-> "none"]

initialState ==
    [user |-> "none", token |-> "none", isAuthenticated |-> FALSE,
     isLoading |-> FALSE, error |-> ""]

\* How the API call of a thunk ends: answered with data, failed (answer of
\* 500 and above, network), or rejected by the request interceptor before
\* dispatch, by the rate limiter or for an expired access token
ApiOutcomes == {"ok", "failed", "rateLimited", "tokenExpired"}

\* The extraReducers of authSlice
PendingReducer(state, kind) ==
    IF kind = "logout" THEN [state EXCEPT !.isLoading = TRUE]
    ELSE [state EXCEPT !.isLoading = TRUE, !.error = ""]

FulfilledReducer(state, kind, payload) ==
    CASE kind \in {"login", "register"} ->
            [state EXCEPT !.isLoading = FALSE, !.user = payload.user,
                          !.token = payload.accessToken,
                          !.isAuthenticated = TRUE, !.error = ""]
      [] kind = "logout" -> initialState
      [] kind = "fetchProfile" ->
            [state EXCEPT !.isLoading = FALSE, !.user = payload.user,
                          !.isAuthenticated = TRUE, !.error = ""]

RejectedReducer(state, kind, message) ==
    CASE kind \in {"login", "register"} ->
            [state EXCEPT !.isLoading = FALSE, !.error = message]
      [] kind = "logout" -> initialState
      [] kind = "fetchProfile" ->
            [state EXCEPT !.isLoading = FALSE, !.error = message,
                          !.isAuthenticated = FALSE, !.user = "none",
                          !.token = "none"]

\* The message of rejectWithValue when the error is not an Error object
DefaultMessage(kind) ==
    CASE kind = "login" -> "Login failed"
      [] kind = "register" -> "Registration failed"
      [] kind = "logout" -> "Logout failed"
      [] kind = "fetchProfile" -> "Failed to fetch profile"

\* The storage after the request interceptor ran for the call: it removes
\* an expired access token before it rejects
AfterInterceptor(s, outcome) ==
    IF outcome = "tokenExpired" THEN [s EXCEPT !.access = "none"] ELSE s

\* What authService.logout leaves in the storage: the finally block clears
\* it however the API call ended
logout_clearsOnSuccessOnly(s, outcome) ==
    IF outcome = "ok" THEN EmptyStorage ELSE s

logout(s, outcome) == EmptyStorage

\* The storage after the authService function of a thunk has resumed from
\* its await and returned or thrown
authService(kind, s, outcome, payload) ==
    CASE kind = "login" ->
            IF outcome = "ok"
               THEN [access |-> payload.accessToken,
                     refresh |-> payload.refreshToken, user |-> payload.user]
               ELSE s
      [] kind = "register" -> s
      [] kind = "logout" -> logout(s, outcome)
      [] kind = "fetchProfile" ->
            IF outcome = "ok" THEN [s EXCEPT !.user = payload.user] ELSE s

NoThunk == [kind |-> "login", at |-> "idle", outcome |-> "ok", user |-> "none"]

NoView == [requiredRole |-> "none", shown |-> "none"]

\* authService.isAuthenticated: !!token
isAuthenticated(s) == s.access # "none"

\* ProtectedRoute: what it returns
ProtectedRoute_tokenOnly(s, requiredRole) ==
    IF ~isAuthenticated(s) THEN "/admin/auth" ELSE "children"

ProtectedRoute(s, requiredRole) ==
    IF ~isAuthenticated(s) THEN "/admin/auth"
    ELSE IF requiredRole # "none" /\ s.user # requiredRole THEN "/"
    ELSE "children"

AuthInit ==
    /\ aStore \in [access : {"none", "t"}, refresh : {"none", "r"},
                   user : {"none"} \cup UserRoles]
    /\ auth = initialState
    /\ th = [i \in ThunkIds |-> NoThunk]
    /\ view = NoView

\* dispatch(login(...)) and the like: the pending action is reduced and the
\* payload creator runs up to the await on the API call
DispatchThunk ==
    /\ \E i \in ThunkIds, kind \in ThunkKinds :
          /\ th[i].at = "idle"
          /\ \A j \in ThunkIds : j < i => th[j].at # "idle"
          /\ th' = [th EXCEPT ![i] = [NoThunk EXCEPT !.kind = kind,
                                                     !.at = "pending"]]
          /\ auth' = PendingReducer(auth, kind)
    /\ UNCHANGED <<aStore, view>>
    /\ UNCHANGED <<serverVars, classifyVars, clientVars, limiterVars,
                   sanitizeVars, tokenVars, hashVars, storageVars>>

\* The API call of a thunk ends and its authService function runs to its
\* end
ServiceReturns ==
    /\ \E i \in ThunkIds, outcome \in ApiOutcomes, user \in UserRoles :
          /\ th[i].at = "pending"
          /\ outcome = "tokenExpired" => aStore.access # "none"
          /\ (outcome # "ok" \/ th[i].kind = "logout") => user = "admin"
          /\ aStore' = authService(th[i].kind, AfterInterceptor(aStore, outcome),
                                   outcome,
                                   [accessToken |-> "t", refreshToken |-> "r",
                                    user |-> user])
          /\ th' = [th EXCEPT ![i].at = "returned", ![i].outcome = outcome,
                              ![i].user = IF outcome = "ok" /\ th[i].kind # "logout"
                                              THEN user ELSE "none"]
    /\ UNCHANGED <<auth, view>>
    /\ UNCHANGED <<serverVars, classifyVars, clientVars, limiterVars,
                   sanitizeVars, tokenVars, hashVars, storageVars>>

\* The thunk settles: its fulfilled or rejected action is reduced
ThunkSettles ==
    /\ \E i \in ThunkIds :
          /\ th[i].at = "returned"
          /\ th' = [th EXCEPT ![i].at = "settled"]
          /\ auth' = IF th[i].outcome = "ok"
                        THEN FulfilledReducer(auth, th[i].kind,
                                              [user |-> th[i].user,
                                               accessToken |-> "t"])
                        ELSE RejectedReducer(auth, th[i].kind,
                                             DefaultMessage(th[i].kind))
    /\ UNCHANGED <<aStore, view>>
    /\ UNCHANGED <<serverVars, classifyVars, clientVars, limiterVars,
                   sanitizeVars, tokenVars, hashVars, storageVars>>

\* A route wrapped in ProtectedRoute is rendered
RenderProtectedRoute ==
    /\ \E requiredRole \in {"none", "admin"} :
          view' = [requiredRole |-> requiredRole,
                   shown |-> ProtectedRoute(aStore, requiredRole)]
    /\ view' # view
    /\ UNCHANGED <<aStore, auth, th>>
    /\ UNCHANGED <<serverVars, classifyVars, clientVars, limiterVars,
                   sanitizeVars, tokenVars, hashVars, storageVars>>

----------------------------------------------------------------------------
(* secureStorage: setItem and getItem over encrypt, decrypt, JSON.stringify *)
(* and JSON.parse.  A text is a sequence of tokens: the letter x, the      *)
(* digit 1, the words true and null, the quote and the brackets.  A value  *)
(* is a node [t, s, kv]: s is the text of a leaf, kv the members.          *)

JValue(t, s) == [t |-> t, s |-> s, kv |-> NoMembers]

JString(s) == JValue("string", s)

JNull == JValue("null", <<"null">>)

NoValue == JValue("none", <<>>)

\* The leaves inside objects and arrays
JsonLeaves ==
    {JString(<<"x">>), JString(<<"1">>), JValue("number", <<"1">>),
     JValue("boolean", <<"true">>), JNull}

\* The JSON values of the model: leaves, and objects and arrays of at most
\* one leaf
JsonValues ==
    JsonLeaves
        \cup {[t |-> "object", s |-> <<>>, kv |-> f] :
                 f \in UNION {[K -> JsonLeaves] : K \in {{}, {"a"}}}}
        \cup {[t |-> "array", s |-> <<>>, kv |-> f] :
                 f \in UNION {[K -> JsonLeaves] : K \in {{}, {"0"}}}}

\* JSON.stringify of a leaf
StringifyLeaf(v) ==
    IF v.t = "string" THEN <<"\"">> \o v.s \o <<"\"">> ELSE v.s

\* JSON.stringify
JSONstringify(v) ==
    CASE v.t = "object" ->
            IF DOMAIN v.kv = {} THEN <<"{", "}">>
            ELSE <<"{", "\"", "a", "\"", ":">> \o StringifyLeaf(v.kv["a"]) \o <<"}">>
      [] v.t = "array" ->
            IF DOMAIN v.kv = {} THEN <<"[", "]">>
            ELSE <<"[">> \o StringifyLeaf(v.kv["0"]) \o <<"]">>
      [] OTHER -> StringifyLeaf(v)

\* JSON.parse: the value that the text is the JSON of; it throws
\* (ok = FALSE) on a text that is the JSON of nothing
JSONparse(text) ==
    IF \E v \in JsonValues : JSONstringify(v) = text
       THEN [ok |-> TRUE, value |-> CHOOSE v \in JsonValues : JSONstringify(v) = text]
       ELSE [ok |-> FALSE, value |-> NoValue]

\* CryptoJS.AES.encrypt(data, key).toString(): an OpenSSL-format text,
\* which starts with the encoded "Salted__" marker
Salted == "U2FsdGVkX1"

encrypt(data) == <<Salted>> \o data

\* CryptoJS.AES.decrypt(...).toString(Utf8) with the same key; what is not
\* a ciphertext makes it throw, and decrypt returns its argument
decrypt(encryptedData) ==
    IF encryptedData # <<>> /\ Head(encryptedData) = Salted
       THEN Tail(encryptedData) ELSE encryptedData

\* stringValue of setItem: a string as it is, anything else as its JSON
StringValue(value) == IF value.t = "string" THEN value.s ELSE JSONstringify(value)

\* getItem on the stored text: the parsed value, or the text itself as a
\* string when JSON.parse throws; null when nothing is stored
Revive(encrypted) ==
    IF encrypted = <<>> THEN JNull
    ELSE LET decrypted == decrypt(encrypted)
             parsed == JSONparse(decrypted)
         IN IF parsed.ok THEN parsed.value ELSE JString(decrypted)

StorageKeyNames == {"access_token", "user_data"}

\* The strings the application may store
StoredStrings ==
    {JString(s) : s \in { <<>>, <<"x">>, <<"x", "1">>, <<"1">>, <<"true">>,
                          <<"null">>, <<"\"", "x", "\"">>, <<"[", "1", "]">>,
                          <<"[", "x">> }}

\* The values handed to setItem: strings, numbers, booleans, objects, arrays
StorableValues ==
    StoredStrings \cup {v \in JsonValues : v.t \in {"number", "boolean", "object", "array"}}

NoStorageCall == [op |-> "none", key |-> "access_token", got |-> NoValue]

StorageInit ==
    /\ ss = [k \in StorageKeyNames |-> <<>>]
    /\ ssWritten = [k \in StorageKeyNames |-> NoValue]
    /\ ssLast = NoStorageCall

\* secureStorage.setItem(key, value)
SetItem ==
    /\ \E key \in StorageKeyNames, value \in StorableValues :
          /\ ss' = [ss EXCEPT ![key] = encrypt(StringValue(value))]
          /\ ssWritten' = [ssWritten EXCEPT ![key] = value]
          /\ ssLast' = [op |-> "setItem", key |-> key, got |-> NoValue]
    /\ UNCHANGED <<serverVars, classifyVars, clientVars, limiterVars,
                   sanitizeVars, tokenVars, hashVars, authVars>>

\* secureStorage.getItem(key)
GetItem ==
    /\ \E key \in StorageKeyNames :
          ssLast' = [op |-> "getItem", key |-> key, got |-> Revive(ss[key])]
    /\ UNCHANGED <<ss, ssWritten>>
    /\ UNCHANGED <<serverVars, classifyVars, clientVars, limiterVars,
                   sanitizeVars, tokenVars, hashVars, authVars>>

\* secureStorage.removeItem(key)
RemoveItem ==
    /\ \E key \in StorageKeyNames :
          /\ ss[key] # <<>>
          /\ ss' = [ss EXCEPT ![key] = <<>>]
          /\ ssWritten' = [ssWritten EXCEPT ![key] = NoValue]
          /\ ssLast' = [op |-> "removeItem", key |-> key, got |-> NoValue]
    /\ UNCHANGED <<serverVars, classifyVars, clientVars, limiterVars,
                   sanitizeVars, tokenVars, hashVars, authVars>>

\* secureStorage.clear()
Clear ==
    /\ \E key \in StorageKeyNames : ss[key] # <<>>
    /\ ss' = [key \in StorageKeyNames |-> <<>>]
    /\ ssWritten' = [key \in StorageKeyNames |-> NoValue]
    /\ ssLast' = [op |-> "clear", key |-> "access_token", got |-> NoValue]
    /\ UNCHANGED <<serverVars, classifyVars, clientVars, limiterVars,
                   sanitizeVars, tokenVars, hashVars, authVars>>

----------------------------------------------------------------------------
(* Specifications *)

ServerIdle ==
    /\ cfg = [env |-> "test", corsOrigin |-> <<"*">>, rateLimitMaxRequests |-> 1]
    /\ pc = "off"
    /\ req = [id |-> NoId, method |-> "GET", path |-> "/health",
              origin |-> None, userAgent |-> "unread", contentType |-> "unread",
              query |-> "clean", body |-> "undefined", segment |-> "clean",
              params |-> "empty"]
    /\ res = [sent |-> FALSE, status |-> 0, body |-> EmptyBody, headers |-> {}]
    /\ err = NoErr
    /\ log = <<>>
    /\ hits = 0
    /\ served = 0
    /\ authHits = 0

ClassifyOff ==
    /\ fl = NoErr
    /\ flSrc = NoSource
    /\ flEnv = "test"
    /\ flRes = Answer(0, EmptyBody)
    /\ flPc = "off"

ClassifyIdle == ClassifyOff /\ jwtCfg = [secret |-> "k1", refreshSecret |-> "k2"]

TokenIdle ==
    /\ tok = NoToken
    /\ tokNow = 0
    /\ tokLast = NoVerification
    /\ tokSeen = [valid |-> FALSE, expired |-> FALSE]

ClientIdle ==
    /\ store = [access |-> NoTok, refresh |-> NoTok, user |-> "none", csrf |-> 0]
    /\ location = "/admin"
    /\ now = 0
    /\ limiter = RateLimiter(ApiRateLimit, ApiWindow)
    /\ call = [i \in CallIds |-> NoCall]
    /\ cPc = [i \in CallIds |-> "off"]
    /\ cErr = [i \in CallIds |-> NoClientErr]
    /\ hist = [i \in CallIds |-> NoHist]
    /\ issued = 0

LimiterIdle ==
    /\ rl = RateLimiter(1, 1)
    /\ rlNow = 0
    /\ rlLast = NoLimiterCall
    /\ rlLog = [i \in Idents |-> <<>>]
    /\ gl = [max |-> 1, hits |-> 0, at |-> [i \in GlRequests |-> "off"],
             totalHits |-> [i \in GlRequests |-> 0]]

SanitizeIdle ==
    /\ sanIn = Leaf("null", "null")
    /\ sanOut = Leaf("null", "null")
    /\ sanPc = "off"

HashIdle ==
    /\ hashIn = [data |-> "d1", salt |-> "", h |-> <<>>]
    /\ hashRes = NoHashResult
    /\ hashOut = "none"
    /\ hashPc = "off"

AuthIdle ==
    /\ aStore = EmptyStorage
    /\ auth = initialState
    /\ th = [i \in ThunkIds |-> [NoThunk EXCEPT !.at = "off"]]
    /\ view = NoView

StorageIdle ==
    /\ ss = [k \in StorageKeyNames |-> <<>>]
    /\ ssWritten = [k \in StorageKeyNames |-> NoValue]
    /\ ssLast = [NoStorageCall EXCEPT !.op = "off"]

Init ==
    /\ ServerInit /\ ClassifyIdle /\ ClientIdle /\ LimiterIdle /\ SanitizeIdle
    /\ TokenIdle /\ HashIdle /\ AuthIdle
    /\ StorageIdle

Next ==
    \/ Arrive
    \/ WindowElapses
    \/ RequestIdMiddleware
    \/ SecurityHeadersStage
    \/ Cors
    \/ PassThrough
    \/ GeneralLimiter
    \/ JsonParser
    \/ UrlencodedParser
    \/ SanitizeInput
    \/ DetectSuspiciousActivity
    \/ ValidateUserAgent
    \/ ValidateContentType
    \/ Static
    \/ Health
    \/ ApiInfo
    \/ UploadAvatar
    \/ DeleteFile
    \/ NotFound
    \/ ErrorHandler

Spec == Init /\ [][Next]_vars

InitClassify ==
    /\ ClassifyInit /\ ServerIdle /\ ClientIdle /\ LimiterIdle /\ SanitizeIdle
    /\ TokenIdle /\ HashIdle /\ AuthIdle
    /\ StorageIdle

NextClassify ==
    \/ HandlerRaises
    \/ VerifyAccess
    \/ VerifyRefresh
    \/ AnswerFailure

SpecClassify == InitClassify /\ [][NextClassify]_vars

InitClient ==
    /\ ClientInit /\ ServerIdle /\ ClassifyIdle /\ LimiterIdle /\ SanitizeIdle
    /\ TokenIdle /\ HashIdle /\ AuthIdle
    /\ StorageIdle

NextClient ==
    \/ StartCall
    \/ Tick
    \/ RequestInterceptor
    \/ ServerResponds
    \/ NetworkFails
    \/ ResponseFulfilled
    \/ ResponseRejected

SpecClient == InitClient /\ [][NextClient]_vars

InitLimiter ==
    /\ LimiterInit /\ ServerIdle /\ ClassifyIdle /\ ClientIdle /\ SanitizeIdle
    /\ TokenIdle /\ HashIdle /\ AuthIdle
    /\ StorageIdle

NextLimiter ==
    \/ IsAllowedCall
    \/ ResetCall
    \/ LimiterTick
    \/ LimiterIncrement
    \/ LimiterDecide

SpecLimiter == InitLimiter /\ [][NextLimiter]_vars

InitSanitize ==
    /\ SanitizeInit /\ ServerIdle /\ ClassifyIdle /\ ClientIdle /\ LimiterIdle
    /\ TokenIdle /\ HashIdle /\ AuthIdle
    /\ StorageIdle

NextSanitize ==
    \/ SanitizeCall
    \/ SanitizeObjectCall

SpecSanitize == InitSanitize /\ [][NextSanitize]_vars

InitToken ==
    /\ TokenInit /\ ServerIdle /\ ClassifyOff /\ ClientIdle /\ LimiterIdle
    /\ SanitizeIdle /\ HashIdle /\ AuthIdle
    /\ StorageIdle

NextToken ==
    \/ GenerateAccessToken
    \/ GenerateRefreshToken
    \/ ForeignToken
    \/ TokenTick
    \/ VerifyAccessToken
    \/ VerifyRefreshToken

SpecToken == InitToken /\ [][NextToken]_vars

InitHash ==
    /\ HashInit /\ ServerIdle /\ ClassifyIdle /\ ClientIdle /\ LimiterIdle
    /\ SanitizeIdle /\ TokenIdle /\ AuthIdle
    /\ StorageIdle

NextHash ==
    \/ HashCall
    \/ VerifyHashCall

SpecHash == InitHash /\ [][NextHash]_vars

InitAuth ==
    /\ AuthInit /\ ServerIdle /\ ClassifyIdle /\ ClientIdle /\ LimiterIdle
    /\ SanitizeIdle /\ TokenIdle /\ HashIdle /\ StorageIdle

NextAuth ==
    \/ DispatchThunk
    \/ ServiceReturns
    \/ ThunkSettles
    \/ RenderProtectedRoute

SpecAuth == InitAuth /\ [][NextAuth]_vars

InitStorage ==
    /\ StorageInit /\ ServerIdle /\ ClassifyIdle /\ ClientIdle /\ LimiterIdle
    /\ SanitizeIdle /\ TokenIdle /\ HashIdle /\ AuthIdle

NextStorage ==
    \/ SetItem
    \/ GetItem
    \/ RemoveItem
    \/ Clear

SpecStorage == InitStorage /\ [][NextStorage]_vars

----------------------------------------------------------------------------
(* Properties of the request pipeline (Spec) *)

Ran(stage) == \E i \in DOMAIN log : log[i].stage = stage

Handlers == {"health", "apiInfo", "uploadAvatar", "deleteFile", "notFound"}

\* The place of a stage in the order the specification lists; 0 for a
\* stage the list does not mention
ListedRank(stage) ==
    CASE stage = "requestIdMiddleware" -> 1
      [] stage = "securityHeaders" -> 2
      [] stage = "cors" -> 3
      [] stage = "generalLimiter" -> 4
      [] stage \in {"json", "urlencoded"} -> 5
      [] stage = "sanitizeInput" -> 6
      [] stage = "detectSuspiciousActivity" -> 7
      [] stage = "validateContentType" -> 8
      [] stage = "compressionConfig" -> 9
      [] stage \in Handlers -> 10
      [] OTHER -> 0

ListedStages ==
    {"requestIdMiddleware", "securityHeaders", "cors", "generalLimiter", "json",
     "urlencoded", "sanitizeInput", "detectSuspiciousActivity",
     "validateContentType", "compressionConfig"}

\* C1: the listed stages of a request run in the listed order (request id,
\* headers, CORS, general rate limit, body parsing, sanitization, anomaly
\* detection, content type, compression), and when a route handler runs,
\* every listed stage has run before it (the rate limiter on API paths).
C1_StageOrder ==
    /\ \A i, j \in DOMAIN log :
          (i < j /\ ListedRank(log[i].stage) > 0 /\ ListedRank(log[j].stage) > 0)
             => ListedRank(log[i].stage) <= ListedRank(log[j].stage)
    /\ \A k \in DOMAIN log :
          log[k].stage \in Handlers =>
             \A s \in ListedStages :
                (s = "generalLimiter" => IsApiPath(req.path))
                   => \E i \in 1..(k - 1) : log[i].stage = s

\* A handler of an API route has run after the whole chain
C1_Witness == pc = "done" /\ Ran("apiInfo") /\ Ran("generalLimiter")

\* C2: no stage runs twice for a request; a stage either calls next(), or
\* sends the response, or raises, never two of them; nothing runs after a
\* stage that sent the response; after a raise only the error handler
\* runs, and nothing runs after the error handler.
C2_ContinueOrTerminate ==
    /\ \A i, j \in DOMAIN log : log[i].stage = log[j].stage => i = j
    /\ \A i \in DOMAIN log :
          /\ ~(log[i].sent /\ log[i].next)
          /\ ~(log[i].sent /\ log[i].raised)
          /\ ~(log[i].next /\ log[i].raised)
          /\ log[i].sent => i = Len(log)
          /\ log[i].stage = "errorHandler" => i = Len(log)
          /\ (log[i].raised /\ i < Len(log)) =>
                (log[i + 1].stage = "errorHandler" /\ i + 1 = Len(log))

\* The anomaly detector ended a request with 400
C2_Witness ==
    /\ pc = "done"
    /\ log # <<>>
    /\ log[Len(log)].stage = "detectSuspiciousActivity"
    /\ res.sent /\ res.status = 400

\* C3: every error response carries the request id given at chain entry.
C3_ErrorsCarryRequestId ==
    (res.sent /\ res.status >= 400) =>
        (req.id # NoId /\ res.body.requestId = req.id)

DefensiveHeaders ==
    {"X-Content-Type-Options", "X-Frame-Options", "Strict-Transport-Security",
     "Permissions-Policy"}

\* C4: every response that is sent carries the defensive headers.
C4_HeadersOnEveryResponse == res.sent => DefensiveHeaders \subseteq res.headers

\* The error handler answered a CORS rejection
C4_Witness ==
    /\ res.sent /\ res.status = 403
    /\ Ran("errorHandler")
    /\ DefensiveHeaders \subseteq res.headers

\* The allow-list each CORS_ORIGIN value configures
ConfiguredAllowList(corsOrigin) ==
    CASE corsOrigin = <<"a">> -> {<<"a">>}
      [] corsOrigin = <<"a", ",", " ", "b">> -> {<<"a">>, <<"b">>}
      [] corsOrigin = <<"*">> -> {<<"*">>}

CorsShouldAllow ==
    \/ req.origin \in {None, <<>>}
    \/ req.origin \in ConfiguredAllowList(cfg.corsOrigin)
    \/ <<"*">> \in ConfiguredAllowList(cfg.corsOrigin)

\* C5: the CORS stage lets a request through exactly when it declares no
\* origin, or its origin is on the allow-list, or the allow-list holds the
\* wildcard; a rejected request is answered 403 by the error handler and
\* no other stage or handler runs for it.
C5_CorsDecision ==
    \A k \in DOMAIN log :
       log[k].stage = "cors" =>
          /\ log[k].raised <=> ~CorsShouldAllow
          /\ log[k].raised =>
                /\ \A i \in DOMAIN log : i > k => log[i].stage = "errorHandler"
                /\ pc \in {"errorHandler", "done"}
                /\ pc = "done" => (res.sent /\ res.status = 403)

\* A request from an origin off the allow-list was answered 403
C5_Witness ==
    /\ pc = "done"
    /\ req.origin = <<"c">>
    /\ \E k \in DOMAIN log : log[k].stage = "cors" /\ log[k].raised
    /\ res.status = 403

----------------------------------------------------------------------------
(* Properties of the error handler (SpecClassify) *)

RuleMatches(rule, e) ==
    CASE rule = "cors" -> e.message = CorsMessage
      [] rule = "rateLimit" -> e.status = 429
      [] rule = "payloadTooLarge" -> e.type = "entity.too.large"
      [] rule = "validation" -> e.name = "ValidationError"
      [] rule = "invalidToken" -> e.name = "JsonWebTokenError"
      [] rule = "expiredToken" -> e.name = "TokenExpiredError"

\* The first rule of order that failure e matches, "default" if none does
FirstMatch(order, e) ==
    IF \E i \in DOMAIN order : RuleMatches(order[i], e)
       THEN order[CHOOSE i \in DOMAIN order :
                     /\ RuleMatches(order[i], e)
                     /\ \A j \in 1..(i - 1) : ~RuleMatches(order[j], e)]
       ELSE "default"

\* The answer flRes is the one rule prescribes for failure fl
AnsweredAs(rule) ==
    CASE rule = "cors" -> flRes.status = 403
      [] rule = "rateLimit" ->
            /\ flRes.status = 429
            /\ fl.message # "" => flRes.body.message = fl.message
      [] rule = "payloadTooLarge" -> flRes.status = 413
      [] rule = "validation" ->
            flRes.status = 400 /\ flRes.body.errors = fl.errors
      [] rule = "invalidToken" ->
            flRes.status = 401 /\ flRes.body.message = "Invalid token"
      [] rule = "expiredToken" ->
            flRes.status = 401 /\ flRes.body.message = "Token expired"
      [] rule = "default" ->
            flRes.status = (IF fl.statusCode # 0 THEN fl.statusCode
                            ELSE IF fl.status # 0 THEN fl.status ELSE 500)

ClaimedOrder ==
    <<"cors", "rateLimit", "payloadTooLarge", "validation", "invalidToken",
      "expiredToken">>

AmendedOrder ==
    <<"cors", "rateLimit", "validation", "invalidToken", "expiredToken",
      "payloadTooLarge">>

\* C6 as claimed: the answer is that of the first matching rule in the
\* order CORS, rate limit, payload too large, validation, invalid token,
\* expired token, else the declared status or 500.
C6_ClaimedOrder ==
    flPc = "answered" => AnsweredAs(FirstMatch(ClaimedOrder, fl))

\* C6 amended: the answer is that of the first matching rule in the order
\* CORS, rate limit, validation, invalid token, expired token, payload too
\* large, else the declared status or 500.
C6_FirstMatchWins ==
    flPc = "answered" => AnsweredAs(FirstMatch(AmendedOrder, fl))

\* A failure matching the validation and the payload rules was answered
C6_Witness ==
    /\ flPc = "answered"
    /\ fl.name = "ValidationError" /\ fl.type = "entity.too.large"
    /\ fl.message # CorsMessage /\ fl.status # 429
    /\ flRes.status = 400

\* C7: a failed token verification is answered 401, 'Token expired' for a
\* token past its expiry and 'Invalid token' for a bad signature or a
\* malformed token.
C7_TokenFailure401 ==
    (flPc = "answered" /\ flSrc.by \in {"verifyAccessToken", "verifyRefreshToken"}) =>
        /\ flRes.status = 401
        /\ flSrc.cause = "TokenExpiredError" => flRes.body.message = "Token expired"
        /\ flSrc.cause = "JsonWebTokenError" => flRes.body.message = "Invalid token"

----------------------------------------------------------------------------
(* Properties of the client interceptors (SpecClient) *)

Cleared == [access |-> NoTok, refresh |-> NoTok, user |-> "none", csrf |-> 0]

\* C8: a request answered 401 while an unexpired refresh token is stored
\* leads to one refresh call; after a successful refresh the new access
\* token is stored and the request is replayed once with it, and a
\* successful replay is what the caller receives.
C8_RefreshAndReplay ==
    \A i \in CallIds :
        (cPc[i] = "settled" /\ hist[i].refreshable) =>
            /\ hist[i].refreshCalls = 1
            /\ hist[i].refreshOk =>
                  /\ hist[i].dispatches = 2
                  /\ hist[i].auths[2].gen > hist[i].auths[1].gen
                  /\ hist[i].received[2] = 200 =>
                        (hist[i].outcome = "resolved" /\ hist[i].status = 200)

C10_ClearOnRefreshFailure ==
    \A i \in CallIds :
        (cPc[i] = "settled" /\ 401 \in Range(hist[i].received)
           /\ ~hist[i].refreshOk) =>
            (store = Cleared /\ location = "/admin/auth")

\* The requests whose refresh call (axios.post to /auth/refresh) is under way
RefreshInFlight == {i \in CallIds : cPc[i] = "refreshing"}

C12_AllowedIffBelowMax ==
    rlLast.op = "isAllowed" =>
        /\ rlLast.allowed <=> rlLast.earlier < rl.maxRequests
        /\ rlLast.recorded <=> rlLast.allowed

\* A call is allowed again after the window has passed: the identifier has
\* been allowed more often than maxRequests without a reset
C12_Witness ==
    /\ rlLast.op = "isAllowed" /\ rlLast.allowed
    /\ Len(rlLog[rlLast.identifier]) > rl.maxRequests
    /\ rlLast.earlier = 0

\* C13: for every identifier the stored timestamps inside the trailing
\* window number at most maxRequests.
C13_StoredWithinMax ==
    \A identifier \in Idents :
        Len(InWindow(rl.requests[identifier], rlNow, rl.timeWindow))
            <= rl.maxRequests

\* One identifier has just been reset while the other stands at its maximum
C13_Witness ==
    /\ rlLast.op = "reset"
    /\ rl.requests[rlLast.identifier] = <<>>
    /\ \E identifier \in Idents :
          Len(InWindow(rl.requests[identifier], rlNow, rl.timeWindow))
              = rl.maxRequests

\* C14: checks made for requests that are under way together never allow
\* more than the window has slots: the calls allowed for an identifier
\* that lie inside the window number at most maxRequests, and
\* generalLimiter lets at most max of the requests of one IP through.
C14_AtomicCheckAndAppend ==
    /\ \A identifier \in Idents :
          Len(InWindow(rlLog[identifier], rlNow, rl.timeWindow))
              <= rl.maxRequests
    /\ Cardinality({i \in GlRequests : gl.at[i] = "passed"}) <= gl.max

\* One slot was left and two checks came at the same instant: the first
\* took it and the second was refused, in the client's limiter and in
\* generalLimiter
C14_Witness ==
    /\ rlLast.op = "isAllowed" /\ ~rlLast.allowed
    /\ rlLast.earlier = rl.maxRequests
    /\ rlLog[rlLast.identifier][Len(rlLog[rlLast.identifier])] = rlNow
    /\ \E i, j \in GlRequests :
          /\ gl.at[i] = "passed" /\ gl.totalHits[i] = gl.max
          /\ gl.at[j] = "limited" /\ gl.totalHits[j] = gl.max + 1

\* C15: a request to an authentication endpoint that comes after the
\* ceiling of the authentication limiter has been reached inside its
\* window, and that the application-level stages have let through to the
\* router, is answered 429 with the envelope {success: false, message,
\* requestId}.
C15_AuthLimiterAnswers429 ==
    (pc = "done" /\ IsAuthPath(req.path) /\ authHits > AuthLimiterMax
       /\ \E h \in Handlers : Ran(h)) =>
        /\ res.status = 429
        /\ ~res.body.success
        /\ res.body.message # ""
        /\ res.body.requestId = req.id

\* C16: what a route handler reads from the query string, the path
\* parameters and the body is what the sanitizer leaves unchanged.
C16_HandlersReadSanitized ==
    (\E h \in Handlers : Ran(h)) =>
        /\ Sanitize(req.query) = req.query
        /\ Sanitize(req.params) = req.params
        /\ Sanitize(req.body) = req.body

\* Same nesting and same keys; leaves that are not strings are equal
RECURSIVE SameShape(_, _)
SameShape(a, b) ==
    /\ a.t = b.t
    /\ DOMAIN a.kv = DOMAIN b.kv
    /\ a.t \in {"number", "boolean", "null"} => a.v = b.v
    /\ \A k \in DOMAIN a.kv : SameShape(a.kv[k], b.kv[k])

\* C17: the value sanitize returns has the nesting and the keys of its
\* argument, with number, boolean and null leaves unchanged.
C17_ShapePreserved == sanPc = "done" => SameShape(sanIn, sanOut)

\* C18: a token issued as a refresh token is never accepted by access-token
\* verification, nor a token issued as an access token by refresh-token
\* verification.
C18_NoCrossUse ==
    /\ (tokLast.by = "verifyAccessToken" /\ tok.issuedAs = "refresh") =>
          tokLast.thrown # ""
    /\ (tokLast.by = "verifyRefreshToken" /\ tok.issuedAs = "access") =>
          tokLast.thrown # ""

\* The secret the last verification checked the signature with
VerifierSecret ==
    IF tokLast.by = "verifyAccessToken" THEN jwtCfg.secret ELSE jwtCfg.refreshSecret

ExpiredKind ==
    IF tokLast.by = "verifyAccessToken" THEN "Token expired"
    ELSE "Refresh token expired"

InvalidKind ==
    IF tokLast.by = "verifyAccessToken" THEN "Invalid token"
    ELSE "Invalid refresh token"

\* C19: a verification with the secret the token was signed with succeeds
\* before the token's expiry and fails as expired from then on; a token that
\* has failed as expired does not verify again; a verification with another
\* secret fails as invalid at every time.
C19_TokenLifecycle ==
    tokLast.by # "none" =>
        /\ tok.secret = VerifierSecret =>
              /\ tokLast.at < tok.exp => tokLast.thrown = ""
              /\ tokLast.at >= tok.exp => tokLast.thrown = ExpiredKind
        /\ tok.secret # VerifierSecret => tokLast.thrown = InvalidKind
        /\ ~(tokSeen.expired /\ tokLast.thrown = "")

\* A token that verified has later failed as expired
C19_Witness ==
    /\ tokSeen.valid /\ tokSeen.expired
    /\ tokLast.thrown = ExpiredKind
    /\ tokLast.at > tok.exp

\* No rule of the error handler matches the failure: the default branch
\* answers it
Unclassified(e) == FirstMatch(AmendedOrder, e) = "default"

\* C20: in production the answer to an unclassified failure carries the
\* generic message and no stack trace, and is the answer to every failure
\* that differs from it only in message or stack trace; an answer with a
\* stack trace comes from a non-production build.
C20_NoLeakInProduction ==
    (flPc = "answered" /\ Unclassified(fl)) =>
        /\ flEnv = "production" =>
              /\ flRes.body.message = "Internal server error"
              /\ flRes.body.stack = ""
              /\ \A m \in Messages, s \in Stacks :
                    LET other == [fl EXCEPT !.message = m, !.stack = s]
                    IN Unclassified(other) => Classify(other, flEnv, 1) = flRes
        /\ flRes.body.stack # "" => flEnv # "production"

\* An unclassified failure with a message and a stack of its own has been
\* answered in production
C20_Witness ==
    /\ flPc = "answered" /\ Unclassified(fl)
    /\ fl.message = "boom" /\ fl.stack = "trace"
    /\ flEnv = "production"
    /\ flRes.body.message = "Internal server error"

Dispatched == {i \in CallIds : hist[i].dispatches > 0}

\* sessionStorage has been cleared (the session has ended): in this
\* specification only the failure of a refresh call does that
SessionCleared == \E i \in CallIds : hist[i].message = "refresh failed"

C23_SuspiciousInputAnswers400 ==
    \A k \in DOMAIN log :
        log[k].stage = "detectSuspiciousActivity" =>
            IF Suspicious(req.query) \/ Suspicious(req.body)
                  \/ Suspicious(req.segment)
               THEN /\ log[k].sent /\ ~log[k].next
                    /\ k = Len(log)
                    /\ res.status = 400
               ELSE log[k].next /\ ~log[k].sent

\* C24: the content-type stage lets every GET request pass; a request of
\* another method is answered 400 when it has no Content-Type (the header
\* is absent or empty), 415 when its Content-Type is none of the allowed
\* types, and is passed on when it is one of them.
C24_ContentTypeGate ==
    \A k \in DOMAIN log :
        log[k].stage = "validateContentType" =>
            IF req.method = "GET" THEN log[k].next /\ ~log[k].sent
            ELSE IF req.contentType \in {"none", ""}
               THEN log[k].sent /\ ~log[k].next /\ k = Len(log) /\ res.status = 400
            ELSE IF req.contentType \notin {"application/json", "multipart/form-data"}
               THEN log[k].sent /\ ~log[k].next /\ k = Len(log) /\ res.status = 415
            ELSE log[k].next /\ ~log[k].sent

\* A DELETE request without a Content-Type header was answered 400 by the
\* stage
C24_Witness ==
    /\ pc = "done"
    /\ req.method = "DELETE" /\ req.contentType = "none"
    /\ log # <<>> /\ log[Len(log)].stage = "validateContentType"
    /\ res.sent /\ res.status = 400

----------------------------------------------------------------------------
(* Properties of SecretsManager (SpecHash) *)

\* C25: verifyHash(data, h, salt) returns true when h is the hash that
\* hash(data, salt) returned, and returns false for every other h, whatever
\* its length.
C25_VerifyHashDecides ==
    hashPc = "done" =>
        hashOut = (IF hashIn.h = hashRes.hash THEN "true" ELSE "false")

----------------------------------------------------------------------------
(* Properties of the frontend's authentication (SpecAuth) *)

\* C26: a rendering of ProtectedRoute shows its children exactly when an
\* access token is stored and the stored user has the required role, if
\* one is required; without a stored token it redirects to /admin/auth,
\* and with a token but another role (or no stored user) to /.
C26_ProtectedRouteGuards ==
    [][view' # view =>
          /\ view'.shown = "children" <=>
                /\ aStore.access # "none"
                /\ view'.requiredRole # "none" => aStore.user = view'.requiredRole
          /\ aStore.access = "none" => view'.shown = "/admin/auth"
          /\ (aStore.access # "none" /\ view'.requiredRole # "none"
                /\ aStore.user # view'.requiredRole) => view'.shown = "/"]_vars

\* A user with a token and the role 'user' is being sent home from the
\* admin route
C26_Witness ==
    /\ view.requiredRole = "admin"
    /\ aStore.access = "t" /\ aStore.user = "user"
    /\ view.shown = "/"

\* C28: when authService.logout returns or throws, however its API call
\* ended, the storage holds no access token, no refresh token and no user
\* data; and when the logout thunk settles, fulfilled or rejected, the
\* Redux auth state is the initial state.
C28_LogoutAlwaysLogsOut ==
    [][\A i \in ThunkIds :
          th[i].kind = "logout" =>
              /\ (th[i].at = "pending" /\ th'[i].at = "returned") =>
                    aStore' = EmptyStorage
              /\ (th[i].at = "returned" /\ th'[i].at = "settled") =>
                    auth' = initialState]_vars

\* After a login that stored a session, a logout whose API call the
\* interceptor rejected has settled as rejected; storage and state are
\* those of a logged-out client
C28_Witness ==
    \E i, j \in ThunkIds :
        /\ th[j].kind = "login" /\ th[j].at = "settled" /\ th[j].outcome = "ok"
        /\ th[i].kind = "logout" /\ th[i].at = "settled"
        /\ th[i].outcome = "rateLimited"
        /\ aStore = EmptyStorage
        /\ auth = initialState

\* The thunks whose pending action has been reduced and whose fulfilled or
\* rejected action has not
PendingThunks == {i \in ThunkIds : th[i].at \in {"pending", "returned"}}

\* C29: isLoading is true whenever a thunk is pending.
C29_LoadingWhilePending == PendingThunks # {} => auth.isLoading

----------------------------------------------------------------------------
(* Properties of SanitizeHelper (SpecSanitize) *)

\* b is a with every string cleaned: same nesting, same keys, equal
\* leaves that are not strings, and no string with a script block or a
\* data:text/html URI
RECURSIVE CleanedCopy(_, _)
CleanedCopy(a, b) ==
    /\ a.t = b.t
    /\ DOMAIN a.kv = DOMAIN b.kv
    /\ a.t = "string" => b.v = (IF a.v \in {"script", "dataUri"} THEN "clean" ELSE a.v)
    /\ a.t \in {"number", "boolean", "null"} => a.v = b.v
    /\ \A k \in DOMAIN a.kv : CleanedCopy(a.kv[k], b.kv[k])

\* C27: SanitizeHelper.object(obj, true) returns obj with the XSS removal
\* applied to every string at every depth, strings in arrays included, and
\* with the nesting, the keys and the other leaves unchanged.
C27_DeepSanitizeCleansAll == sanPc = "objectDone" => CleanedCopy(sanIn, sanOut)

----------------------------------------------------------------------------
(* Properties of secureStorage (SpecStorage) *)

\* C30: getItem(key) returns the value that the last setItem(key, v) was
\* given, with its type, when the key has not been written since.
C30_StorageRoundTrip ==
    (ssLast.op = "getItem" /\ ssWritten[ssLast.key] # NoValue) =>
        ssLast.got = ssWritten[ssLast.key]

====
